---------------------------- MODULE Spec2Model ----------------------------
(***************************************************************************)
(* Model of evccdb: the rename engine (rename.go), the transfer            *)
(* orchestrator and row copier (transfer.go) and the client helpers        *)
(* (client.go), over an abstract SQLite database.                          *)
(*                                                                         *)
(* Text values (names, settings keys, YAML-style blobs) are sequences of   *)
(* one-character strings, so that LIKE, TrimPrefix, Contains and Replace   *)
(* are computed character by character as SQLite and Go compute them.      *)
(* A table is a record [cols, rows]: cols is the list of ColumnInfo, rows  *)
(* the rows in rowid order (the order of a SELECT without ORDER BY).       *)
(* A table with no column does not exist.                                  *)
(***************************************************************************)
EXTENDS Integers, Sequences, FiniteSets, TLC

VARIABLES
    src,    \* the source database (Transfer's src client)
    dst,    \* the destination database; the client of the rename calls
    pre,    \* [src, dst] as they were when the last call started
    op,     \* the last call and its arguments
    res,    \* what the last call returned / reported
    pc      \* "idle" before the call, "done" after it

vars == <<src, dst, pre, op, res, pc>>

-----------------------------------------------------------------------------
(* Text.                                                                    *)

NULL == <<"NULL">>

sVehicleDot == <<"v", "e", "h", "i", "c", "l", "e", ".">>
sDot        == <<".">>
sPercent    == <<"%">>
sLpTitle    == <<"l", "p", "%", ".", "t", "i", "t", "l", "e">>
sTitleColon == <<"t", "i", "t", "l", "e", ":", " ">>

UpperToLower ==
    [A |-> "a", B |-> "b", C |-> "c", D |-> "d", E |-> "e", F |-> "f",
     G |-> "g", H |-> "h", I |-> "i", J |-> "j", K |-> "k", L |-> "l",
     M |-> "m", N |-> "n", O |-> "o", P |-> "p", Q |-> "q", R |-> "r",
     S |-> "s", T |-> "t", U |-> "u", V |-> "v", W |-> "w", X |-> "x",
     Y |-> "y", Z |-> "z"]

\* SQLite folds ASCII letters when LIKE compares two characters.
FoldCase(c) == IF c \in DOMAIN UpperToLower THEN UpperToLower[c] ELSE c

\* SQLite's LIKE: % matches any run of characters, _ exactly one, every
\* other character matches itself up to ASCII case; there is no escape.
RECURSIVE Like(_, _)
Like(s, pattern) ==
    IF pattern = <<>> THEN s = <<>>
    ELSE IF Head(pattern) = "%"
         THEN Like(s, Tail(pattern)) \/ (s # <<>> /\ Like(Tail(s), pattern))
         ELSE /\ s # <<>>
              /\ \/ Head(pattern) = "_"
                 \/ FoldCase(Head(pattern)) = FoldCase(Head(s))
              /\ Like(Tail(s), Tail(pattern))

\* strings.HasPrefix: byte-exact.
HasPrefix(s, prefix) ==
    /\ Len(s) >= Len(prefix)
    /\ SubSeq(s, 1, Len(prefix)) = prefix

\* strings.TrimPrefix: s without the prefix if it has it, else s itself.
TrimPrefix(s, prefix) ==
    IF HasPrefix(s, prefix) THEN SubSeq(s, Len(prefix) + 1, Len(s)) ELSE s

\* strings.Index: the first position at which sub occurs in s, 0 if none.
IndexOf(s, sub) ==
    LET hits == {i \in 1..(Len(s) - Len(sub) + 1) :
                    SubSeq(s, i, i + Len(sub) - 1) = sub}
    IN  IF hits = {} THEN 0 ELSE CHOOSE i \in hits : \A j \in hits : i <= j

\* strings.Contains
Contains(s, sub) == IndexOf(s, sub) # 0

\* A replacement of the last occurrence instead of the first.
ReplaceFirst_Last(s, old, new) ==
    LET hits == {i \in 1..(Len(s) - Len(old) + 1) : SubSeq(s, i, i + Len(old) - 1) = old}
    IN  IF hits = {} THEN s
        ELSE LET i == CHOOSE h \in hits : \A j \in hits : j <= h
             IN  SubSeq(s, 1, i - 1) \o new \o SubSeq(s, i + Len(old), Len(s))

\* strings.Replace(s, old, new, 1): only the first occurrence.
ReplaceFirst(s, old, new) ==
    LET i == IndexOf(s, old)
    IN  IF i = 0 THEN s
        ELSE SubSeq(s, 1, i - 1) \o new \o SubSeq(s, i + Len(old), Len(s))


-----------------------------------------------------------------------------
(* Databases.                                                               *)

TableNames == {"settings", "configs", "caches", "meters", "sessions", "grid_sessions"}

NoTable == [cols |-> <<>>, rows |-> <<>>]

Col(name, type, default, primary) ==
    [Name |-> name, Type |-> type, Default |-> default, Primary |-> primary]

ColNames(cols) == {cols[i].Name : i \in DOMAIN cols}

\* sqlite_master has a row for the table.
HasTable(db, table) == table \in DOMAIN db /\ db[table].cols # <<>>

HasColumn(db, table, column) ==
    HasTable(db, table) /\ column \in ColNames(db[table].cols)

RowSet(t) == {t.rows[i] : i \in DOMAIN t.rows}

\* The rows of a sequence that satisfy Test, in order.
Where(rows, Test(_)) == SelectSeq(rows, Test)

CountWhere(rows, Test(_)) == Cardinality({i \in DOMAIN rows : Test(rows[i])})

\* UPDATE ... SET column = value WHERE Test
UpdateWhere(rows, Test(_), column, value) ==
    [i \in DOMAIN rows |->
        IF Test(rows[i]) THEN [rows[i] EXCEPT ![column] = value] ELSE rows[i]]

\* DELETE ... WHERE Test
DeleteWhere(rows, Test(_)) == SelectSeq(rows, LAMBDA r : ~Test(r))

\* The element of a one-element set.  Only({e(x) : x \in {v}}) is e(v) with
\* v computed once, as a Go statement x := v computes it.
Only(S) == CHOOSE x \in S : TRUE

PrimaryCols(cols) == {cols[i].Name : i \in {j \in DOMAIN cols : cols[j].Primary}}

\* An INTEGER PRIMARY KEY column is the rowid: a NULL stored in it becomes
\* the largest rowid plus one, and a table scan returns rows in its order.
RowidCol(cols) ==
    LET ints == {i \in DOMAIN cols : cols[i].Primary /\ cols[i].Type = "INTEGER"}
    IN  IF Cardinality(PrimaryCols(cols)) = 1 /\ ints # {}
        THEN cols[CHOOSE i \in ints : TRUE].Name
        ELSE ""

MaxOf(S) == IF S = {} THEN 0 ELSE CHOOSE m \in S : \A x \in S : x <= m

ColType(cols, c) == cols[CHOOSE i \in DOMAIN cols : cols[i].Name = c].Type

ColDefault(cols, c) == cols[CHOOSE i \in DOMAIN cols : cols[i].Name = c].Default

\* A conflict test that takes every existing row for a conflicting one.
Conflicts_Always(cols, r1, r2) == TRUE

\* Two rows conflict when they agree on every primary-key column and none
\* of these is NULL (SQLite never lets a NULL conflict).  Only TEXT columns
\* hold NULL here: the rowid is never NULL.
Conflicts(cols, r1, r2) ==
    /\ PrimaryCols(cols) # {}
    /\ \A c \in PrimaryCols(cols) :
          /\ ColType(cols, c) = "TEXT" => r1[c] # NULL
          /\ r1[c] = r2[c]

\* An insert that stores the new row and leaves the rows it conflicts with.
InsertOrReplace_KeepsOld(t, given) ==
    LET idc  == RowidCol(t.cols)
        ids  == IF idc = "" THEN {} ELSE {t.rows[i][idc] : i \in DOMAIN t.rows}
        full == [c \in ColNames(t.cols) |->
                   IF c \in DOMAIN given THEN given[c]
                   ELSE IF c = idc THEN MaxOf(ids) + 1
                   ELSE ColDefault(t.cols, c)]
    IN  [t EXCEPT !.rows = Append(t.rows, full)]

\* INSERT OR REPLACE INTO table (names) VALUES (values): the listed columns
\* take the given values, every other column its DEFAULT (the rowid column
\* the next rowid); every existing row that conflicts with the new row is
\* deleted, then the new row is stored (in rowid order in a rowid-keyed
\* table, else after the last row).
InsertOrReplace(t, given) ==
    LET idc  == RowidCol(t.cols)
        ids  == IF idc = "" THEN {} ELSE {t.rows[i][idc] : i \in DOMAIN t.rows}
        full == [c \in ColNames(t.cols) |->
                   IF c \in DOMAIN given THEN given[c]
                   ELSE IF c = idc THEN MaxOf(ids) + 1
                   ELSE ColDefault(t.cols, c)]
        kept == SelectSeq(t.rows, LAMBDA r : ~Conflicts(t.cols, full, r))
    IN  [t EXCEPT !.rows =
           IF idc = "" THEN Append(kept, full)
           ELSE SelectSeq(kept, LAMBDA r : r[idc] < full[idc])
                \o <<full>>
                \o SelectSeq(kept, LAMBDA r : r[idc] > full[idc])]

-----------------------------------------------------------------------------
(* encoding/json, as far as the configs blobs need it.                      *)
(* A blob is [kind, fields, text]: kind "json" is the text of a JSON       *)
(* object whose members are fields, in the order written; kind "text" is   *)
(* any text that does not decode as a JSON object.  A member value is      *)
(* [t |-> "str", s |-> chars] or [t |-> "num", s |-> literal].             *)

\* The member names of the modelled blobs, in byte order (json.Marshal
\* writes the members of a map sorted by key).
JSONKeyOrder == <<"charger", "id", "title", "type">>

JStr(s) == [t |-> "str", s |-> s]
JNum(s) == [t |-> "num", s |-> s]

JSONBlob(fields) == [kind |-> "json", fields |-> fields, text |-> <<>>]
TextBlob(text)   == [kind |-> "text", fields |-> <<>>, text |-> text]

\* The members of a JSON object as its text has them.
RECURSIVE JSONText(_)
JSONText(fields) ==
    IF fields = <<>> THEN <<>>
    ELSE LET f == Head(fields)
             v == IF f.v.t = "str" THEN <<"\"">> \o f.v.s \o <<"\"">> ELSE f.v.s
         IN  <<"\"", f.k, "\"", ":">> \o v
             \o (IF Len(fields) > 1 THEN <<",">> ELSE <<>>)
             \o JSONText(Tail(fields))

\* The value column of a configs row: the text itself.
RawText(value) ==
    IF value.kind = "text" THEN value.text
    ELSE <<"{">> \o JSONText(value.fields) \o <<"}">>

\* 2^53 + 1, the smallest positive integer that is no float64, and the
\* float64 nearest to it, each literal as one piece of text.
sBigInt     == <<"9007199254740993">>
sBigFloat64 == <<"9007199254740992">>

\* A JSON number decoded into an any is a float64; json.Marshal writes a
\* float64 with the fewest digits that read back as the same float64.  The
\* result is given by the text Marshal writes: an integer literal of up to
\* 15 digits is written as it was read, 2^53 + 1 as 2^53.
Float64(literal) == IF literal = sBigInt THEN sBigFloat64 ELSE literal

\* A member value decoded into an any: a string, or a float64.
Decoded(v) == IF v.t = "num" THEN JNum(Float64(v.s)) ELSE v

\* A decoder that takes an object without a string title for an error.
JSONUnmarshal_TitleRequired(value) ==
    IF value.kind # "json"
       \/ \A i \in DOMAIN value.fields :
             value.fields[i].k = "title" => value.fields[i].v.t # "str"
    THEN [ok |-> FALSE, data |-> <<>>]
    ELSE LET names == {value.fields[i].k : i \in DOMAIN value.fields}
             last(n) == MaxOf({i \in DOMAIN value.fields : value.fields[i].k = n})
         IN  [ok |-> TRUE, data |-> [n \in names |-> Decoded(value.fields[last(n)].v)]]

\* json.Unmarshal into map[string]any: fails on text that is no JSON
\* object; of two members with one name the later one wins.
JSONUnmarshal(value) ==
    IF value.kind # "json" THEN [ok |-> FALSE, data |-> <<>>]
    ELSE LET names == {value.fields[i].k : i \in DOMAIN value.fields}
             last(n) == MaxOf({i \in DOMAIN value.fields : value.fields[i].k = n})
         IN  [ok |-> TRUE, data |-> [n \in names |-> Decoded(value.fields[last(n)].v)]]

\* json.Marshal of a map: one member per key, sorted by key.
JSONMarshal(data) ==
    LET keys == SelectSeq(JSONKeyOrder, LAMBDA k : k \in DOMAIN data)
    IN  JSONBlob([i \in DOMAIN keys |-> [k |-> keys[i], v |-> data[keys[i]]]])

\* data["title"].(string): the title and whether it is there and a string.
TitleOf(data) ==
    IF "title" \in DOMAIN data /\ data["title"].t = "str"
    THEN [ok |-> TRUE, title |-> data["title"].s]
    ELSE [ok |-> FALSE, title |-> <<>>]

-----------------------------------------------------------------------------
(* Transactions.  A transaction works on a copy of the database; Commit     *)
(* makes the copy the database, the deferred Rollback leaves the database  *)
(* as it was when the transaction began.                                   *)

Commit(db, tx) == tx

\* A rename that forgets the deferred Rollback: the statements run before
\* the failure stay in the database.
Rollback_Forgotten(db, tx) == tx

Rollback(db, tx) == db

NoCounts == [Sessions |-> 0, Settings |-> 0, Configs |-> 0]

-----------------------------------------------------------------------------
(* The rename engine.  Every step returns [tx, count, err]; fails makes    *)
(* the step's first statement fail.                                        *)

\* A sessions step that counts the rows and updates none.
renameInSessions_CountOnly(tx, column, oldName, newName, fails) ==
    IF fails \/ ~HasColumn(tx, "sessions", column)
    THEN [tx |-> tx, count |-> 0, err |-> TRUE]
    ELSE [tx    |-> tx,
          count |-> CountWhere(tx["sessions"].rows, LAMBDA r : r[column] = oldName),
          err   |-> FALSE]

\* UPDATE sessions SET column = newName WHERE column = oldName
renameInSessions(tx, column, oldName, newName, fails) ==
    IF fails \/ ~HasColumn(tx, "sessions", column)
    THEN [tx |-> tx, count |-> 0, err |-> TRUE]
    ELSE [tx    |-> [tx EXCEPT !["sessions"].rows =
                        UpdateWhere(@, LAMBDA r : r[column] = oldName, column, newName)],
          count |-> CountWhere(tx["sessions"].rows, LAMBDA r : r[column] = oldName),
          err   |-> FALSE]

\* An UPDATE without the key pattern: every row holding oldValue is changed.
renameSettingsValue_AnyKey(tx, keyPattern, oldValue, newValue, fails) ==
    IF fails \/ ~HasTable(tx, "settings")
    THEN [tx |-> tx, count |-> 0, err |-> TRUE]
    ELSE LET hit(r) == r.value = oldValue
         IN  [tx    |-> [tx EXCEPT !["settings"].rows =
                            UpdateWhere(@, hit, "value", newValue)],
              count |-> CountWhere(tx["settings"].rows, hit),
              err   |-> FALSE]

\* UPDATE settings SET value = newValue WHERE key LIKE keyPattern AND value = oldValue
renameSettingsValue(tx, keyPattern, oldValue, newValue, fails) ==
    IF fails \/ ~HasTable(tx, "settings")
    THEN [tx |-> tx, count |-> 0, err |-> TRUE]
    ELSE LET hit(r) == Like(r.key, keyPattern) /\ r.value = oldValue
         IN  [tx    |-> [tx EXCEPT !["settings"].rows =
                            UpdateWhere(@, hit, "value", newValue)],
              count |-> CountWhere(tx["settings"].rows, hit),
              err   |-> FALSE]

\* The loop of renameSettingsKeys: for each selected row, INSERT OR REPLACE
\* the row under the new key, then DELETE the old key.
RECURSIVE migrateKeys(_, _, _, _)
migrateKeys(t, kvs, oldPrefix, newPrefix) ==
    IF kvs = <<>> THEN t
    ELSE LET kv     == Head(kvs)
             newKey == newPrefix \o TrimPrefix(kv.key, oldPrefix)
             t1     == InsertOrReplace(t, [key |-> newKey, value |-> kv.value])
             t2     == [t1 EXCEPT !.rows = DeleteWhere(@, LAMBDA r : r.key = kv.key)]
         IN  migrateKeys(t2, Tail(kvs), oldPrefix, newPrefix)

\* SELECT key, value FROM settings WHERE key LIKE oldPrefix%, then the loop.
\* Scanning a NULL value into a Go string is an error.
renameSettingsKeys(tx, oldPrefix, newPrefix, fails) ==
    IF fails \/ ~HasTable(tx, "settings")
    THEN [tx |-> tx, count |-> 0, err |-> TRUE]
    ELSE Only({IF \E i \in DOMAIN kvs : kvs[i].value = NULL
               THEN [tx |-> tx, count |-> 0, err |-> TRUE]
               ELSE [tx    |-> [tx EXCEPT !["settings"] =
                                   migrateKeys(@, kvs, oldPrefix, newPrefix)],
                     count |-> Len(kvs),
                     err   |-> FALSE] :
                  kvs \in {Where(tx["settings"].rows,
                                 LAMBDA r : Like(r.key, oldPrefix \o sPercent))}})

\* The loop of renameInConfigsJSON over the rows read beforehand.
RECURSIVE rewriteConfigs(_, _, _, _)
rewriteConfigs(t, configs, oldTitle, newTitle) ==
    IF configs = <<>> THEN [t |-> t, updated |-> 0]
    ELSE LET cfg  == Head(configs)
             set(v) == [t EXCEPT !.rows =
                          UpdateWhere(@, LAMBDA r : r.id = cfg.id, "value", v)]
             \* the rest of the loop after this row left table t1 and counted n
             next(t1, n) ==
                 Only({[t |-> rest.t, updated |-> n + rest.updated] :
                          rest \in {rewriteConfigs(t1, Tail(configs), oldTitle, newTitle)}})
             yaml ==
                 IF Contains(RawText(cfg.value), sTitleColon \o oldTitle)
                 THEN next(set(TextBlob(ReplaceFirst(RawText(cfg.value),
                                                     sTitleColon \o oldTitle,
                                                     sTitleColon \o newTitle))), 1)
                 ELSE next(t, 0)
             json(data) ==
                 Only({IF ~ttl.ok \/ ttl.title # oldTitle
                       THEN next(t, 0)
                       ELSE next(set(JSONMarshal(
                                   [k \in DOMAIN data |->
                                       IF k = "title" THEN JStr(newTitle) ELSE data[k]])), 1) :
                          ttl \in {TitleOf(data)}})
         IN  Only({IF ~dec.ok THEN yaml ELSE json(dec.data) :
                      dec \in {JSONUnmarshal(cfg.value)}})

\* A SELECT without the class: the rows of every class are rewritten.
renameInConfigsJSON_AnyClass(tx, class, oldTitle, newTitle, fails) ==
    IF fails \/ ~HasTable(tx, "configs")
    THEN [tx |-> tx, count |-> 0, err |-> TRUE]
    ELSE Only({[tx    |-> [tx EXCEPT !["configs"] = done.t],
                count |-> done.updated,
                err   |-> FALSE] :
                  done \in {rewriteConfigs(tx["configs"], tx["configs"].rows,
                                           oldTitle, newTitle)}})

\* SELECT id, value FROM configs WHERE class = ?, then the loop.
renameInConfigsJSON(tx, class, oldTitle, newTitle, fails) ==
    IF fails \/ ~HasTable(tx, "configs")
    THEN [tx |-> tx, count |-> 0, err |-> TRUE]
    ELSE LET configs == Where(tx["configs"].rows, LAMBDA r : r.class = class)
         IN  Only({[tx    |-> [tx EXCEPT !["configs"] = done.t],
                    count |-> done.updated,
                    err   |-> FALSE] :
                      done \in {rewriteConfigs(tx["configs"], configs,
                                               oldTitle, newTitle)}})

RenameFaults == {"none", "begin", "sessions", "settings", "configs", "commit"}

\* RenameLoadpoint: begin, sessions.loadpoint, the lp<n>.title settings
\* values, the class-5 configs, commit.  The first error returns what was
\* counted so far and the deferred Rollback undoes the transaction.
RenameLoadpoint(db, oldName, newName, fail) ==
    LET failed(tx, result) == [db |-> Rollback(db, tx), result |-> result, err |-> TRUE]
        configs(tx, result) ==
            Only({IF s.err THEN failed(s.tx, result)
                  ELSE IF fail = "commit"
                  THEN failed(s.tx, [result EXCEPT !.Configs = s.count])
                  ELSE [db     |-> Commit(db, s.tx),
                        result |-> [result EXCEPT !.Configs = s.count],
                        err    |-> FALSE] :
                     s \in {renameInConfigsJSON(tx, 5, oldName, newName,
                                                 fail = "configs")}})
        settings(tx, result) ==
            Only({IF s.err THEN failed(s.tx, result)
                  ELSE configs(s.tx, [result EXCEPT !.Settings = s.count]) :
                     s \in {renameSettingsValue(tx, sLpTitle, oldName, newName,
                                                 fail = "settings")}})
    IN  IF fail = "begin" THEN [db |-> db, result |-> NoCounts, err |-> TRUE]
        ELSE Only({IF s.err THEN failed(s.tx, NoCounts)
                   ELSE settings(s.tx, [NoCounts EXCEPT !.Sessions = s.count]) :
                      s \in {renameInSessions(db, "loadpoint", oldName, newName,
                                               fail = "sessions")}})

\* RenameVehicle: begin, sessions.vehicle, the vehicle.<name>.* settings
\* keys, the class-3 configs, commit.
RenameVehicle(db, oldName, newName, fail) ==
    LET failed(tx, result) == [db |-> Rollback(db, tx), result |-> result, err |-> TRUE]
        configs(tx, result) ==
            Only({IF s.err THEN failed(s.tx, result)
                  ELSE IF fail = "commit"
                  THEN failed(s.tx, [result EXCEPT !.Configs = s.count])
                  ELSE [db     |-> Commit(db, s.tx),
                        result |-> [result EXCEPT !.Configs = s.count],
                        err    |-> FALSE] :
                     s \in {renameInConfigsJSON(tx, 3, oldName, newName,
                                                 fail = "configs")}})
        settings(tx, result) ==
            Only({IF s.err THEN failed(s.tx, result)
                  ELSE configs(s.tx, [result EXCEPT !.Settings = s.count]) :
                     s \in {renameSettingsKeys(tx, sVehicleDot \o oldName \o sDot,
                                                sVehicleDot \o newName \o sDot,
                                                fail = "settings")}})
    IN  IF fail = "begin" THEN [db |-> db, result |-> NoCounts, err |-> TRUE]
        ELSE Only({IF s.err THEN failed(s.tx, NoCounts)
                   ELSE settings(s.tx, [NoCounts EXCEPT !.Sessions = s.count]) :
                      s \in {renameInSessions(db, "vehicle", oldName, newName,
                                               fail = "sessions")}})

-----------------------------------------------------------------------------
(* The counting mode: the same three counts, read from the database        *)
(* itself, outside any transaction.                                        *)

\* A counting mode that forgets the YAML-style fallback of the mutating mode.
countConfigsWithTitle_JSONOnly(db, class, title) ==
    CountWhere(db["configs"].rows,
               LAMBDA r : /\ r.class = class
                          /\ LET dec == JSONUnmarshal(r.value)
                                 ttl == TitleOf(dec.data)
                             IN  dec.ok /\ ttl.ok /\ ttl.title = title)

\* countConfigsWithTitle
countConfigsWithTitle(db, class, title) ==
    CountWhere(db["configs"].rows,
               LAMBDA r : /\ r.class = class
                          /\ LET dec == JSONUnmarshal(r.value)
                                 ttl == TitleOf(dec.data)
                             IN  IF ~dec.ok
                                 THEN Contains(RawText(r.value), sTitleColon \o title)
                                 ELSE ttl.ok /\ ttl.title = title)

DryRunFaults == {"none", "sessions", "settings", "configs"}

\* RenameLoadpointDryRun: three counting queries on the database.
RenameLoadpointDryRun(db, oldName, newName, fail) ==
    LET n1 == CountWhere(db["sessions"].rows, LAMBDA r : r.loadpoint = oldName)
        n2 == CountWhere(db["settings"].rows,
                         LAMBDA r : Like(r.key, sLpTitle) /\ r.value = oldName)
        n3 == countConfigsWithTitle(db, 5, oldName)
    IN  IF fail = "sessions" \/ ~HasColumn(db, "sessions", "loadpoint")
        THEN [result |-> NoCounts, err |-> TRUE]
        ELSE IF fail = "settings" \/ ~HasTable(db, "settings")
        THEN [result |-> [NoCounts EXCEPT !.Sessions = n1], err |-> TRUE]
        ELSE IF fail = "configs" \/ ~HasTable(db, "configs")
        THEN [result |-> [Sessions |-> n1, Settings |-> n2, Configs |-> 0], err |-> TRUE]
        ELSE [result |-> [Sessions |-> n1, Settings |-> n2, Configs |-> n3], err |-> FALSE]

\* RenameVehicleDryRun: three counting queries on the database.
RenameVehicleDryRun(db, oldName, newName, fail) ==
    LET n1 == CountWhere(db["sessions"].rows, LAMBDA r : r.vehicle = oldName)
        oldPrefix == sVehicleDot \o oldName \o sDot \o sPercent
        n2 == CountWhere(db["settings"].rows, LAMBDA r : Like(r.key, oldPrefix))
        n3 == countConfigsWithTitle(db, 3, oldName)
    IN  IF fail = "sessions" \/ ~HasColumn(db, "sessions", "vehicle")
        THEN [result |-> NoCounts, err |-> TRUE]
        ELSE IF fail = "settings" \/ ~HasTable(db, "settings")
        THEN [result |-> [NoCounts EXCEPT !.Sessions = n1], err |-> TRUE]
        ELSE IF fail = "configs" \/ ~HasTable(db, "configs")
        THEN [result |-> [Sessions |-> n1, Settings |-> n2, Configs |-> 0], err |-> TRUE]
        ELSE [result |-> [Sessions |-> n1, Settings |-> n2, Configs |-> n3], err |-> FALSE]

-----------------------------------------------------------------------------
(* client.go: identifiers, table resolution, introspection.                *)

Letters == DOMAIN UpperToLower \union {UpperToLower[c] : c \in DOMAIN UpperToLower}
Digits  == {"0", "1", "2", "3", "4", "5", "6", "7", "8", "9"}

\* The spelling of the table names a caller passes.
Spell(name) ==
    CASE name = "settings"      -> <<"s", "e", "t", "t", "i", "n", "g", "s">>
      [] name = "configs"       -> <<"c", "o", "n", "f", "i", "g", "s">>
      [] name = "caches"        -> <<"c", "a", "c", "h", "e", "s">>
      [] name = "meters"        -> <<"m", "e", "t", "e", "r", "s">>
      [] name = "sessions"      -> <<"s", "e", "s", "s", "i", "o", "n", "s">>
      [] name = "grid_sessions" -> <<"g", "r", "i", "d", "_", "s", "e", "s", "s", "i", "o", "n", "s">>
      [] name = "t;--"          -> <<"t", ";", "-", "-">>
      [] name = "2fast"         -> <<"2", "f", "a", "s", "t">>
      [] name = "_x9"           -> <<"_", "x", "9">>
      [] name = "a b"           -> <<"a", " ", "b">>
      [] name = ""              -> <<>>

\* validIdentifier: ^[a-zA-Z_][a-zA-Z0-9_]*$
ValidateIdentifier(name) ==
    LET s == Spell(name)
    IN  /\ s # <<>>
        /\ s[1] \in Letters \union {"_"}
        /\ \A i \in DOMAIN s : s[i] \in Letters \union Digits \union {"_"}

GetConfigTables  == <<"settings", "configs", "caches">>
GetMetricsTables == <<"meters", "sessions", "grid_sessions">>
GetAllTables     == GetConfigTables \o GetMetricsTables

TransferConfig  == 0
TransferMetrics == 1
TransferAll     == 2

\* A resolution that consults the mode before the explicit list.
ResolveTables_ModeFirst(opts) ==
    IF opts.Mode \notin {TransferConfig, TransferMetrics, TransferAll}
    THEN [tables |-> <<>>, err |-> TRUE]
    ELSE IF Len(opts.Tables) > 0
    THEN IF \E i \in DOMAIN opts.Tables : ~ValidateIdentifier(opts.Tables[i])
         THEN [tables |-> <<>>, err |-> TRUE]
         ELSE [tables |-> opts.Tables, err |-> FALSE]
    ELSE CASE opts.Mode = TransferConfig  -> [tables |-> GetConfigTables, err |-> FALSE]
           [] opts.Mode = TransferMetrics -> [tables |-> GetMetricsTables, err |-> FALSE]
           [] OTHER                       -> [tables |-> GetAllTables, err |-> FALSE]

\* ResolveTables: a non-empty explicit list is validated and used, else the
\* mode selects the tables.
ResolveTables(opts) ==
    IF Len(opts.Tables) > 0
    THEN IF \E i \in DOMAIN opts.Tables : ~ValidateIdentifier(opts.Tables[i])
         THEN [tables |-> <<>>, err |-> TRUE]
         ELSE [tables |-> opts.Tables, err |-> FALSE]
    ELSE CASE opts.Mode = TransferConfig  -> [tables |-> GetConfigTables, err |-> FALSE]
           [] opts.Mode = TransferMetrics -> [tables |-> GetMetricsTables, err |-> FALSE]
           [] opts.Mode = TransferAll     -> [tables |-> GetAllTables, err |-> FALSE]
           [] OTHER                       -> [tables |-> <<>>, err |-> TRUE]

\* An existence check that finds every table.
TableExists_Always(db, name) == TRUE

\* TableExists: SELECT COUNT(*) FROM sqlite_master WHERE name = ?
TableExists(db, name) == HasTable(db, name)

\* GetTableColumns: PRAGMA table_info lists the columns in declaration
\* order; for a table that does not exist it lists nothing, without error.
GetTableColumns(db, table) ==
    IF HasTable(db, table) THEN db[table].cols ELSE <<>>

\* GetRowCount: SELECT COUNT(*) FROM table; no such table is an error.
GetRowCount(db, table) ==
    IF HasTable(db, table)
    THEN [count |-> Len(db[table].rows), err |-> FALSE]
    ELSE [count |-> 0, err |-> TRUE]

-----------------------------------------------------------------------------
(* transfer.go: the row copier.                                            *)

\* An intersection that returns the destination's columns.
intersectColumns_OfDst(srcCols, dstCols) ==
    SelectSeq(dstCols, LAMBDA col : col.Name \in ColNames(srcCols))

\* intersectColumns: the source columns whose name the destination has.
intersectColumns(srcCols, dstCols) ==
    SelectSeq(srcCols, LAMBDA col : col.Name \in ColNames(dstCols))

NoFault == [at |-> "none", i |-> 0, k |-> 0, step |-> "none"]

\* A row loop that leaves the last source row out.
RECURSIVE copyRows_OffByOne(_, _, _, _, _)
copyRows_OffByOne(t, srcRows, colNames, copied, fault) ==
    IF Len(srcRows) <= 1 THEN [t |-> t, copied |-> copied, err |-> FALSE]
    ELSE Only({copyRows_OffByOne(t1, Tail(srcRows), colNames, copied + 1, fault) :
                  t1 \in {InsertOrReplace(t, [c \in colNames |-> Head(srcRows)[c]])}})

\* The row loop of copyTableWithTx: scan the next source row, INSERT OR
\* REPLACE its common columns into the destination; fault makes the scan
\* or the insert of row fault.k fail, returning the rows written so far.
RECURSIVE copyRows(_, _, _, _, _)
copyRows(t, srcRows, colNames, copied, fault) ==
    IF srcRows = <<>> THEN [t |-> t, copied |-> copied, err |-> FALSE]
    ELSE IF fault.at \in {"scan", "insert"} /\ fault.k = copied + 1
    THEN [t |-> t, copied |-> copied, err |-> TRUE]
    ELSE Only({copyRows(t1, Tail(srcRows), colNames, copied + 1, fault) :
                  t1 \in {InsertOrReplace(t, [c \in colNames |-> Head(srcRows)[c]])}})

\* A copy that rolls the caller's transaction back when the column lists
\* share no name.
copyTableWithTx_UndoesAll(tx, srcDB, dstDB, table, fault) ==
    LET srcCols    == GetTableColumns(srcDB, table)
        dstCols    == GetTableColumns(dstDB, table)
        commonCols == intersectColumns(srcCols, dstCols)
        skipped    == SelectSeq(srcCols, LAMBDA col : col.Name \notin ColNames(dstCols))
        count      == GetRowCount(srcDB, table)
        fail(w)    == [tx |-> tx, copied |-> 0, err |-> TRUE, warnings |-> w]
    IN  IF fault.at \in {"srccols", "dstcols"} THEN fail(<<>>)
        ELSE IF Len(commonCols) = 0
        THEN [tx |-> dstDB, copied |-> 0, err |-> TRUE, warnings |-> <<>>]
        ELSE IF fault.at = "count" \/ count.err THEN fail(skipped)
        ELSE IF count.count = 0
        THEN [tx |-> tx, copied |-> 0, err |-> FALSE, warnings |-> skipped]
        ELSE IF fault.at = "query" THEN fail(skipped)
        ELSE Only({[tx       |-> [tx EXCEPT ![table] = rows.t],
                    copied   |-> rows.copied,
                    err      |-> rows.err,
                    warnings |-> skipped] :
                      rows \in {copyRows(tx[table], srcDB[table].rows,
                                         ColNames(commonCols), 0, fault)}})

\* copyTableWithTx: returns the transaction's database, the rows copied,
\* the error and the source-only columns warned about.
copyTableWithTx(tx, srcDB, dstDB, table, fault) ==
    LET srcCols    == GetTableColumns(srcDB, table)
        dstCols    == GetTableColumns(dstDB, table)
        commonCols == intersectColumns(srcCols, dstCols)
        skipped    == SelectSeq(srcCols, LAMBDA col : col.Name \notin ColNames(dstCols))
        count      == GetRowCount(srcDB, table)
        fail(w)    == [tx |-> tx, copied |-> 0, err |-> TRUE, warnings |-> w]
    IN  IF fault.at \in {"srccols", "dstcols"} THEN fail(<<>>)
        ELSE IF Len(commonCols) = 0 THEN fail(<<>>)
        ELSE IF fault.at = "count" \/ count.err THEN fail(skipped)
        ELSE IF count.count = 0
        THEN [tx |-> tx, copied |-> 0, err |-> FALSE, warnings |-> skipped]
        ELSE IF fault.at = "query" THEN fail(skipped)
        ELSE Only({[tx       |-> [tx EXCEPT ![table] = rows.t],
                    copied   |-> rows.copied,
                    err      |-> rows.err,
                    warnings |-> skipped] :
                      rows \in {copyRows(tx[table], srcDB[table].rows,
                                         ColNames(commonCols), 0, fault)}})

-----------------------------------------------------------------------------
(* transfer.go: Transfer.                                                  *)
(* A fault [at, i, k, step] makes one database call of the run fail: the   *)
(* call named at, for the i-th resolved table (and its k-th row), or the   *)
(* step of the k-th rename directive (loadpoints first, then vehicles).    *)

\* The step of rename directive n that the fault makes fail, if any.
StepFault(fault, n) ==
    IF fault.at = "rename" /\ fault.k = n THEN fault.step ELSE "none"

\* Dry run, the table loop: a warning for a table the destination lacks,
\* else the source row count.
RECURSIVE previewTables(_, _, _, _, _)
previewTables(srcDB, dstDB, tables, i, fault) ==
    IF i > Len(tables) THEN [out |-> <<>>, err |-> FALSE]
    ELSE LET table == tables[i]
             count == GetRowCount(srcDB, table)
             rest  == previewTables(srcDB, dstDB, tables, i + 1, fault)
             then(e) == [rest EXCEPT !.out = <<e>> \o @]
         IN  IF fault.at = "exists" /\ fault.i = i THEN [out |-> <<>>, err |-> TRUE]
             ELSE IF ~TableExists(dstDB, table)
             THEN then([ev |-> "missing", table |-> table])
             ELSE IF (fault.at = "count" /\ fault.i = i) \/ count.err
             THEN [out |-> <<>>, err |-> TRUE]
             ELSE then([ev |-> "rows", table |-> table, count |-> count.count])

\* Dry run, one rename loop: the counting mode on the SOURCE client.
RECURSIVE previewRenames(_, _, _, _, _, _)
previewRenames(srcDB, renames, kind, j, base, fault) ==
    IF j > Len(renames) THEN [out |-> <<>>, err |-> FALSE]
    ELSE LET m == renames[j]
             rest == previewRenames(srcDB, renames, kind, j + 1, base, fault)
         IN  Only({IF r.err THEN [out |-> <<>>, err |-> TRUE]
                   ELSE [rest EXCEPT !.out =
                            <<[ev |-> "rename", kind |-> kind, OldName |-> m.OldName,
                               NewName |-> m.NewName, result |-> r.result]>> \o @] :
                      r \in {IF kind = "loadpoint"
                             THEN RenameLoadpointDryRun(srcDB, m.OldName, m.NewName,
                                                        StepFault(fault, base + j))
                             ELSE RenameVehicleDryRun(srcDB, m.OldName, m.NewName,
                                                      StepFault(fault, base + j))}})

\* A table loop that calls the progress callback before it looks at the
\* copy's error: the failing table is reported too.
RECURSIVE copyTables_ReportsFailed(_, _, _, _, _, _, _)
copyTables_ReportsFailed(tx, srcDB, dstDB, tables, i, opts, fault) ==
    IF i > Len(tables)
    THEN [tx |-> tx, err |-> "", out |-> <<>>, copied |-> <<>>, progress |-> <<>>]
    ELSE LET table == tables[i]
             stop(t, e) == [tx |-> t, err |-> e, out |-> <<>>, copied |-> <<>>,
                            progress |-> <<>>]
             skip  == copyTables_ReportsFailed(tx, srcDB, dstDB, tables, i + 1, opts, fault)
             copy(c) ==
                 LET entry == [table |-> table, count |-> c.copied]
                     rest  == copyTables_ReportsFailed(c.tx, srcDB, dstDB, tables, i + 1,
                                                       opts, fault)
                 IN  IF c.err
                     THEN [stop(c.tx, "copy") EXCEPT
                              !.progress = IF opts.OnProgress THEN <<entry>> ELSE @]
                     ELSE [rest EXCEPT !.copied   = <<entry>> \o @,
                                       !.progress = IF opts.OnProgress
                                                    THEN <<entry>> \o @ ELSE @]
         IN  IF fault.at = "exists" /\ fault.i = i THEN stop(tx, "exists")
             ELSE IF ~TableExists(dstDB, table)
             THEN [skip EXCEPT !.out = <<[ev |-> "missing", table |-> table]>> \o @]
             ELSE Only({copy(c) :
                          c \in {copyTableWithTx(tx, srcDB, dstDB, table,
                                      IF fault.i = i THEN fault ELSE NoFault)}})

\* Real run, the table loop inside the destination transaction; err is ""
\* or names the call that failed.
RECURSIVE copyTables(_, _, _, _, _, _, _)
copyTables(tx, srcDB, dstDB, tables, i, opts, fault) ==
    IF i > Len(tables)
    THEN [tx |-> tx, err |-> "", out |-> <<>>, copied |-> <<>>, progress |-> <<>>]
    ELSE LET table == tables[i]
             stop(t, e) == [tx |-> t, err |-> e, out |-> <<>>, copied |-> <<>>,
                            progress |-> <<>>]
             skip  == copyTables(tx, srcDB, dstDB, tables, i + 1, opts, fault)
             copy(c) ==
                 LET entry == [table |-> table, count |-> c.copied]
                     rest  == copyTables(c.tx, srcDB, dstDB, tables, i + 1, opts, fault)
                 IN  IF c.err THEN stop(c.tx, "copy")
                     ELSE [rest EXCEPT !.copied   = <<entry>> \o @,
                                       !.progress = IF opts.OnProgress
                                                    THEN <<entry>> \o @ ELSE @]
         IN  IF fault.at = "exists" /\ fault.i = i THEN stop(tx, "exists")
             ELSE IF ~TableExists(dstDB, table)
             THEN [skip EXCEPT !.out = <<[ev |-> "missing", table |-> table]>> \o @]
             ELSE Only({copy(c) :
                          c \in {copyTableWithTx(tx, srcDB, dstDB, table,
                                      IF fault.i = i THEN fault ELSE NoFault)}})

\* A rename loop that goes on to the next directive after an error.
RECURSIVE applyRenames_KeepGoing(_, _, _, _, _, _)
applyRenames_KeepGoing(db, renames, kind, j, base, fault) ==
    IF j > Len(renames) THEN [db |-> db, err |-> FALSE, renames |-> <<>>]
    ELSE LET m == renames[j]
             e(r) == [kind |-> kind, OldName |-> m.OldName, NewName |-> m.NewName,
                      result |-> r.result, err |-> r.err]
             rest(r) == applyRenames_KeepGoing(r.db, renames, kind, j + 1, base, fault)
         IN  Only({[rest(r) EXCEPT !.renames = <<e(r)>> \o @, !.err = r.err \/ @] :
                      r \in {IF kind = "loadpoint"
                             THEN RenameLoadpoint(db, m.OldName, m.NewName,
                                                  StepFault(fault, base + j))
                             ELSE RenameVehicle(db, m.OldName, m.NewName,
                                                StepFault(fault, base + j))}})

\* A rename loop that takes the directives from the last to the first.
RECURSIVE applyRenames_LastFirst(_, _, _, _, _, _)
applyRenames_LastFirst(db, renames, kind, j, base, fault) ==
    IF j > Len(renames) THEN [db |-> db, err |-> FALSE, renames |-> <<>>]
    ELSE LET m == renames[Len(renames) + 1 - j]
             e(r) == [kind |-> kind, OldName |-> m.OldName, NewName |-> m.NewName,
                      result |-> r.result, err |-> r.err]
             rest(r) == applyRenames_LastFirst(r.db, renames, kind, j + 1, base, fault)
         IN  Only({IF r.err THEN [db |-> r.db, err |-> TRUE, renames |-> <<e(r)>>]
                   ELSE [rest(r) EXCEPT !.renames = <<e(r)>> \o @] :
                      r \in {IF kind = "loadpoint"
                             THEN RenameLoadpoint(db, m.OldName, m.NewName,
                                                  StepFault(fault, base + j))
                             ELSE RenameVehicle(db, m.OldName, m.NewName,
                                                StepFault(fault, base + j))}})

\* Real run, one rename loop: the mutating mode on the DESTINATION client,
\* each directive in its own transaction; the first error ends the loop.
RECURSIVE applyRenames(_, _, _, _, _, _)
applyRenames(db, renames, kind, j, base, fault) ==
    IF j > Len(renames) THEN [db |-> db, err |-> FALSE, renames |-> <<>>]
    ELSE LET m == renames[j]
             e(r) == [kind |-> kind, OldName |-> m.OldName, NewName |-> m.NewName,
                      result |-> r.result, err |-> r.err]
             rest(r) == applyRenames(r.db, renames, kind, j + 1, base, fault)
         IN  Only({IF r.err THEN [db |-> r.db, err |-> TRUE, renames |-> <<e(r)>>]
                   ELSE [rest(r) EXCEPT !.renames = <<e(r)>> \o @] :
                      r \in {IF kind = "loadpoint"
                             THEN RenameLoadpoint(db, m.OldName, m.NewName,
                                                  StepFault(fault, base + j))
                             ELSE RenameVehicle(db, m.OldName, m.NewName,
                                                StepFault(fault, base + j))}})

\* What a Transfer that began no transaction returns.  err names the
\* call whose error is returned: "" is nil.
Returned(srcDB, dstDB, err, out) ==
    [src |-> srcDB, dst |-> dstDB, err |-> err, out |-> out, began |-> FALSE,
     copied |-> <<>>, progress |-> <<>>, renames |-> <<>>]

\* A real run that issues its mutating renames on the source client.
transferReal_RenamesOnSource(srcDB, dstDB, opts, tables, fault) ==
    LET nLp == Len(opts.LoadpointRenames)
        ran(ct) == [src |-> srcDB, dst |-> dstDB, err |-> "", out |-> ct.out,
                    began |-> TRUE, copied |-> ct.copied, progress |-> ct.progress,
                    renames |-> <<>>]
        vehicles(ct, rl) ==
            Only({[ran(ct) EXCEPT !.src = rv.db, !.dst = Commit(dstDB, ct.tx),
                                  !.err = IF rv.err THEN "rename" ELSE "",
                                  !.renames = rl.renames \o rv.renames] :
                     rv \in {applyRenames(rl.db, opts.VehicleRenames, "vehicle",
                                          1, nLp, fault)}})
        loadpoints(ct) ==
            Only({IF rl.err
                  THEN [ran(ct) EXCEPT !.src = rl.db, !.dst = Commit(dstDB, ct.tx),
                                       !.err = "rename",
                                       !.renames = rl.renames]
                  ELSE vehicles(ct, rl) :
                     rl \in {applyRenames(srcDB, opts.LoadpointRenames,
                                          "loadpoint", 1, 0, fault)}})
        tail(ct) ==
            IF ct.err # ""
            THEN [ran(ct) EXCEPT !.dst = Rollback(dstDB, ct.tx), !.err = ct.err]
            ELSE IF fault.at = "commit"
            THEN [ran(ct) EXCEPT !.dst = Rollback(dstDB, ct.tx), !.err = "commit"]
            ELSE loadpoints(ct)
    IN  IF fault.at = "begin" THEN Returned(srcDB, dstDB, "begin", <<>>)
        ELSE Only({tail(ct) :
                     ct \in {copyTables(dstDB, srcDB, dstDB, tables, 1, opts, fault)}})

\* Transfer, real run: one destination transaction for all tables, commit,
\* then the loadpoint directives and the vehicle directives.  A failed
\* Commit leaves nothing behind (the driver rolls the transaction back).
transferReal(srcDB, dstDB, opts, tables, fault) ==
    LET nLp == Len(opts.LoadpointRenames)
        ran(ct) == [src |-> srcDB, dst |-> dstDB, err |-> "", out |-> ct.out,
                    began |-> TRUE, copied |-> ct.copied, progress |-> ct.progress,
                    renames |-> <<>>]
        vehicles(ct, rl) ==
            Only({[ran(ct) EXCEPT !.dst = rv.db,
                                  !.err = IF rv.err THEN "rename" ELSE "",
                                  !.renames = rl.renames \o rv.renames] :
                     rv \in {applyRenames(rl.db, opts.VehicleRenames, "vehicle",
                                          1, nLp, fault)}})
        loadpoints(ct) ==
            Only({IF rl.err
                  THEN [ran(ct) EXCEPT !.dst = rl.db, !.err = "rename",
                                       !.renames = rl.renames]
                  ELSE vehicles(ct, rl) :
                     rl \in {applyRenames(Commit(dstDB, ct.tx), opts.LoadpointRenames,
                                          "loadpoint", 1, 0, fault)}})
        tail(ct) ==
            IF ct.err # ""
            THEN [ran(ct) EXCEPT !.dst = Rollback(dstDB, ct.tx), !.err = ct.err]
            ELSE IF fault.at = "commit"
            THEN [ran(ct) EXCEPT !.dst = Rollback(dstDB, ct.tx), !.err = "commit"]
            ELSE loadpoints(ct)
    IN  IF fault.at = "begin" THEN Returned(srcDB, dstDB, "begin", <<>>)
        ELSE Only({tail(ct) :
                     ct \in {copyTables(dstDB, srcDB, dstDB, tables, 1, opts, fault)}})

\* A dry run that forgets it is one.
transferDryRun_Forgotten(srcDB, dstDB, opts, tables, fault) ==
    transferReal(srcDB, dstDB, opts, tables, fault)

\* Transfer, dry run: prints what it finds, begins no transaction.
transferDryRun(srcDB, dstDB, opts, tables, fault) ==
    LET nLp == Len(opts.LoadpointRenames)
        vehicles(out) ==
            Only({Returned(srcDB, dstDB, IF pv.err THEN "preview" ELSE "", out \o pv.out) :
                     pv \in {previewRenames(srcDB, opts.VehicleRenames, "vehicle",
                                            1, nLp, fault)}})
        loadpoints(out) ==
            Only({IF pl.err THEN Returned(srcDB, dstDB, "preview", out \o pl.out)
                  ELSE vehicles(out \o pl.out) :
                     pl \in {previewRenames(srcDB, opts.LoadpointRenames, "loadpoint",
                                            1, 0, fault)}})
    IN  Only({IF pt.err THEN Returned(srcDB, dstDB, "preview", pt.out)
              ELSE loadpoints(pt.out) :
                 pt \in {previewTables(srcDB, dstDB, tables, 1, fault)}})

\* Transfer: the destination afterwards, the error, the lines printed
\* (out), whether a destination transaction was begun, the count each
\* copyTableWithTx returned, the OnProgress calls and what each mutating
\* rename returned.
Transfer(srcDB, dstDB, opts, fault) ==
    Only({IF resolved.err THEN Returned(srcDB, dstDB, "resolve", <<>>)
          ELSE IF opts.DryRun
          THEN transferDryRun(srcDB, dstDB, opts, resolved.tables, fault)
          ELSE transferReal(srcDB, dstDB, opts, resolved.tables, fault) :
             resolved \in {ResolveTables(opts)}})

-----------------------------------------------------------------------------
(* The databases the calls start from.                                     *)

\* The most rows a starting database holds, over all its tables.
MaxRows == 3

nA   == <<"a">>
nB   == <<"b">>
nUpA == <<"A">>
nAny == <<"_">>
nC   == <<"c">>

\* The names a rename is called with.
Names == {nA, nB, nUpA, nAny}

\* The evcc schema, reduced to the columns the library reads or writes.
SettingsCols == <<Col("key", "TEXT", NULL, TRUE), Col("value", "TEXT", NULL, FALSE)>>
ConfigsCols  == <<Col("id", "INTEGER", 0, TRUE), Col("class", "INTEGER", 0, FALSE),
                  Col("value", "TEXT", NULL, FALSE)>>
CachesCols   == <<Col("key", "TEXT", NULL, TRUE), Col("value", "TEXT", NULL, FALSE)>>
\* meters has no primary key but the unique index meter_ts on (meter, ts);
\* the flag Primary marks the columns of a table's uniqueness constraint.
MetersCols   == <<Col("meter", "INTEGER", 0, TRUE), Col("ts", "TEXT", NULL, TRUE),
                  Col("val", "INTEGER", 0, FALSE)>>
SessionsCols == <<Col("id", "INTEGER", 0, TRUE), Col("loadpoint", "TEXT", NULL, FALSE),
                  Col("vehicle", "TEXT", NULL, FALSE)>>
GridCols     == <<Col("id", "INTEGER", 0, TRUE), Col("type", "TEXT", NULL, FALSE)>>

EmptyDB ==
    [settings      |-> [cols |-> SettingsCols, rows |-> <<>>],
     configs       |-> [cols |-> ConfigsCols,  rows |-> <<>>],
     caches        |-> [cols |-> CachesCols,   rows |-> <<>>],
     meters        |-> [cols |-> MetersCols,   rows |-> <<>>],
     sessions      |-> [cols |-> SessionsCols, rows |-> <<>>],
     grid_sessions |-> [cols |-> GridCols,     rows |-> <<>>]]

kTitle(n) == <<"l", "p", n, ".", "t", "i", "t", "l", "e">>
kMode(n)  == <<"l", "p", n, ".", "m", "o", "d", "e">>
kVehicle(name) == sVehicleDot \o name \o <<".", "m">>

\* Candidate rows, each list in rowid order.
SessionRows ==
    <<[id |-> 1, loadpoint |-> nA, vehicle |-> nA],
      [id |-> 2, loadpoint |-> nA, vehicle |-> NULL],
      [id |-> 3, loadpoint |-> nB, vehicle |-> nB]>>

SettingRows ==
    <<[key |-> kTitle("1"),    value |-> nA],
      [key |-> kTitle("2"),    value |-> nB],
      [key |-> kMode("1"),     value |-> nA],
      [key |-> kVehicle(nA),   value |-> <<"1">>],
      [key |-> kVehicle(nB),   value |-> <<"2">>],
      [key |-> kVehicle(nUpA), value |-> <<"3">>]>>

ConfigRows ==
    <<[id |-> 1, class |-> 5,
       value |-> JSONBlob(<<[k |-> "title", v |-> JStr(nA)],
                            [k |-> "charger", v |-> JStr(<<"x">>)]>>)],
      [id |-> 2, class |-> 3,
       value |-> JSONBlob(<<[k |-> "type", v |-> JStr(<<"x">>)],
                            [k |-> "title", v |-> JStr(nA)],
                            [k |-> "id", v |-> JNum(sBigInt)]>>)],
      [id |-> 3, class |-> 3,
       value |-> TextBlob(sTitleColon \o nA \o <<"\n">> \o sTitleColon \o nA)],
      [id |-> 4, class |-> 3,
       value |-> JSONBlob(<<[k |-> "type", v |-> JStr(sTitleColon \o nA)]>>)],
      [id |-> 5, class |-> 5,
       value |-> JSONBlob(<<[k |-> "title", v |-> JNum(<<"7">>)],
                            [k |-> "charger", v |-> JStr(sTitleColon \o nA)]>>)]>>

\* The rows of base at the positions in S, in order.
Pick(base, S) == SelectSeq(base, LAMBDA r : \E i \in S : base[i] = r)

\* Every database of the evcc schema made of at most MaxRows candidate rows.
StartDBs ==
    {[EmptyDB EXCEPT !["sessions"].rows = Pick(SessionRows, a),
                     !["settings"].rows = Pick(SettingRows, b),
                     !["configs"].rows  = Pick(ConfigRows, c)] :
        <<a, b, c>> \in
            {t \in (SUBSET DOMAIN SessionRows) \X (SUBSET DOMAIN SettingRows)
                     \X (SUBSET DOMAIN ConfigRows) :
                Cardinality(t[1]) + Cardinality(t[2]) + Cardinality(t[3]) <= MaxRows}}

Idle == [name |-> "none"]

Init ==
    /\ src = EmptyDB
    /\ dst \in StartDBs
    /\ pre = [src |-> src, dst |-> dst]
    /\ op = Idle
    /\ res = Idle
    /\ pc = "idle"

-----------------------------------------------------------------------------
(* One call per behaviour step.                                            *)

DoRenameLoadpoint ==
    /\ pc = "idle"
    /\ \E oldName \in Names, newName \in Names, fail \in RenameFaults :
          \E r \in {RenameLoadpoint(dst, oldName, newName, fail)} :
              /\ dst' = r.db
              /\ res' = [result |-> r.result, err |-> r.err]
              /\ op' = [name |-> "RenameLoadpoint", oldName |-> oldName,
                        newName |-> newName, fail |-> fail]
    /\ pre' = [src |-> src, dst |-> dst]
    /\ pc' = "done"
    /\ UNCHANGED src

DoRenameVehicle ==
    /\ pc = "idle"
    /\ \E oldName \in Names, newName \in Names, fail \in RenameFaults :
          \E r \in {RenameVehicle(dst, oldName, newName, fail)} :
              /\ dst' = r.db
              /\ res' = [result |-> r.result, err |-> r.err]
              /\ op' = [name |-> "RenameVehicle", oldName |-> oldName,
                        newName |-> newName, fail |-> fail]
    /\ pre' = [src |-> src, dst |-> dst]
    /\ pc' = "done"
    /\ UNCHANGED src

DoRenameLoadpointDryRun ==
    /\ pc = "idle"
    /\ \E oldName \in Names, newName \in Names, fail \in DryRunFaults :
          \E r \in {RenameLoadpointDryRun(dst, oldName, newName, fail)} :
              /\ res' = [result |-> r.result, err |-> r.err]
              /\ op' = [name |-> "RenameLoadpointDryRun", oldName |-> oldName,
                        newName |-> newName, fail |-> fail]
    /\ pre' = [src |-> src, dst |-> dst]
    /\ pc' = "done"
    /\ UNCHANGED <<src, dst>>

DoRenameVehicleDryRun ==
    /\ pc = "idle"
    /\ \E oldName \in Names, newName \in Names, fail \in DryRunFaults :
          \E r \in {RenameVehicleDryRun(dst, oldName, newName, fail)} :
              /\ res' = [result |-> r.result, err |-> r.err]
              /\ op' = [name |-> "RenameVehicleDryRun", oldName |-> oldName,
                        newName |-> newName, fail |-> fail]
    /\ pre' = [src |-> src, dst |-> dst]
    /\ pc' = "done"
    /\ UNCHANGED <<src, dst>>

Next ==
    \/ DoRenameLoadpoint
    \/ DoRenameVehicle
    \/ DoRenameLoadpointDryRun
    \/ DoRenameVehicleDryRun

Spec == Init /\ [][Next]_vars

-----------------------------------------------------------------------------
(* Transfers: the databases, options and faults a Transfer starts from.    *)

\* The most rows a source database holds, over all its tables.
MaxSrcRows == 2

\* Faults are placed in the first two resolved tables.
FaultTables == {1, 2}

SrcSessionRows == SubSeq(SessionRows, 1, 2)
SrcSettingRows == <<SettingRows[1], SettingRows[4]>>
SrcConfigRows  == SubSeq(ConfigRows, 1, 1)

\* A source of the evcc schema with at most MaxSrcRows candidate rows.
SrcDBs ==
    {[EmptyDB EXCEPT !["sessions"].rows = Pick(SrcSessionRows, a),
                     !["settings"].rows = Pick(SrcSettingRows, b),
                     !["configs"].rows  = Pick(SrcConfigRows, c)] :
        <<a, b, c>> \in
            {t \in (SUBSET DOMAIN SrcSessionRows) \X (SUBSET DOMAIN SrcSettingRows)
                     \X (SUBSET DOMAIN SrcConfigRows) :
                Cardinality(t[1]) + Cardinality(t[2]) + Cardinality(t[3]) <= MaxSrcRows}}

\* A source written by a version that had no unique index on meters: two
\* readings of one meter at one time.
SrcOldMeters ==
    [EmptyDB EXCEPT
        !["meters"] = [cols |-> <<Col("meter", "INTEGER", 0, FALSE),
                                  Col("ts", "TEXT", NULL, FALSE),
                                  Col("val", "INTEGER", 0, FALSE)>>,
                       rows |-> <<[meter |-> 1, ts |-> <<"t">>, val |-> 5],
                                  [meter |-> 1, ts |-> <<"t">>, val |-> 6]>>],
        !["settings"].rows = SubSeq(SettingRows, 1, 1)]

\* A destination that already holds rows, some with the keys of source rows.
DstWithRows ==
    [EmptyDB EXCEPT
        !["sessions"].rows = <<[id |-> 1, loadpoint |-> nB, vehicle |-> nB],
                               [id |-> 7, loadpoint |-> nA, vehicle |-> nA]>>,
        !["settings"].rows = <<[key |-> kTitle("1"), value |-> nB],
                               [key |-> kVehicle(nB), value |-> <<"9">>]>>]

\* A destination whose settings table has a column the source lacks, with a
\* default, and a row that holds another value in it.
DstExtraColumn ==
    [EmptyDB EXCEPT
        !["settings"] = [cols |-> SettingsCols \o <<Col("extra", "TEXT", <<"d">>, FALSE)>>,
                         rows |-> <<[key |-> kTitle("1"), value |-> nB,
                                     extra |-> <<"x">>]>>]]

\* The same schema with the settings table empty.
DstExtraColumnEmpty == [DstExtraColumn EXCEPT !["settings"].rows = <<>>]

\* A destination without the configs table.
DstNoConfigs == [EmptyDB EXCEPT !["configs"] = NoTable]

\* A destination whose settings table shares no column with the source's.
DstOtherColumns ==
    [EmptyDB EXCEPT
        !["settings"] = [cols |-> <<Col("name", "TEXT", NULL, TRUE),
                                    Col("data", "TEXT", NULL, FALSE)>>,
                         rows |-> <<>>]]

\* A destination whose meters table was created without the unique index
\* meter_ts.
DstOldMeters == [EmptyDB EXCEPT !["meters"].cols = SrcOldMeters["meters"].cols]

DstDBs == {EmptyDB, DstWithRows, DstExtraColumn, DstExtraColumnEmpty, DstNoConfigs,
           DstOtherColumns, DstOldMeters}

Mapping(old, new) == [OldName |-> old, NewName |-> new]

\* The rename directives of a transfer: (loadpoints, vehicles).
RenameLists ==
    {<< <<>>, <<>> >>,
     << <<Mapping(nA, nB)>>, <<>> >>,
     << <<>>, <<Mapping(nA, nB)>> >>,
     << <<Mapping(nA, nB), Mapping(nB, nA)>>, <<Mapping(nA, nB)>> >>,
     << <<Mapping(nA, nB), Mapping(nB, nC)>>, <<Mapping(nA, nB), Mapping(nB, nC)>> >>,
     << <<Mapping(nA, <<>>)>>, <<Mapping(<<" ">>, nB)>> >>}

\* The table selections of a transfer: (mode, explicit tables).
TableSelections ==
    {<<TransferConfig, <<>> >>, <<TransferMetrics, <<>> >>, <<TransferAll, <<>> >>,
     <<3, <<>> >>,
     <<TransferConfig, <<"sessions", "settings">> >>,
     <<TransferMetrics, <<"settings", "t;--">> >>}

\* Every selection and directive list with a progress callback, and every
\* selection without directives and without callback.
TransferOptionsSet ==
    {[Mode |-> sel[1], Tables |-> sel[2], DryRun |-> dry, OnProgress |-> TRUE,
      LoadpointRenames |-> ren[1], VehicleRenames |-> ren[2]] :
        sel \in TableSelections, dry \in BOOLEAN, ren \in RenameLists}
    \union
    {[Mode |-> sel[1], Tables |-> sel[2], DryRun |-> dry, OnProgress |-> FALSE,
      LoadpointRenames |-> <<>>, VehicleRenames |-> <<>>] :
        sel \in TableSelections, dry \in BOOLEAN}

Fault(at, i, k, step) == [at |-> at, i |-> i, k |-> k, step |-> step]

\* The faults that can strike a Transfer with these options: none when
\* the tables do not resolve (no database call is made).
FaultsOf(opts) ==
    LET resolved == ResolveTables(opts)
        nDirs    == Len(opts.LoadpointRenames) + Len(opts.VehicleRenames)
        tbl      == FaultTables \cap DOMAIN resolved.tables
    IN  IF resolved.err THEN {NoFault}
        ELSE IF opts.DryRun
        THEN {NoFault}
             \union {Fault(at, i, 0, "none") : at \in {"exists", "count"}, i \in tbl}
             \union {Fault("rename", 0, k, st) :
                        k \in 1..nDirs, st \in DryRunFaults \ {"none"}}
        ELSE {NoFault, Fault("begin", 0, 0, "none"), Fault("commit", 0, 0, "none")}
             \union {Fault(at, i, 0, "none") :
                        at \in {"exists", "srccols", "dstcols", "count", "query"}, i \in tbl}
             \union {Fault(at, i, k, "none") :
                        at \in {"scan", "insert"}, i \in tbl, k \in 1..MaxSrcRows}
             \union {Fault("rename", 0, k, st) :
                        k \in 1..nDirs, st \in RenameFaults \ {"none"}}

\* A source with sessions of two loadpoints, one of them without vehicle.
SrcTwoLoadpoints == [EmptyDB EXCEPT !["sessions"].rows = SessionRows]

InitTransfer ==
    /\ src \in SrcDBs \union {SrcOldMeters, SrcTwoLoadpoints}
    /\ dst \in DstDBs
    /\ pre = [src |-> src, dst |-> dst]
    /\ op = Idle
    /\ res = Idle
    /\ pc = "idle"

DoTransfer ==
    /\ pc = "idle"
    /\ \E opts \in TransferOptionsSet :
          \E fault \in FaultsOf(opts) :
             \E r \in {Transfer(src, dst, opts, fault)} :
                 /\ dst' = r.dst
                 /\ res' = [err |-> r.err, out |-> r.out, began |-> r.began,
                            copied |-> r.copied, progress |-> r.progress,
                            renames |-> r.renames]
                 /\ op' = [name |-> "Transfer", opts |-> opts, fault |-> fault]
                 /\ src' = r.src
    /\ pre' = [src |-> src, dst |-> dst]
    /\ pc' = "done"

NextTransfer == DoTransfer

SpecTransfer == InitTransfer /\ [][NextTransfer]_vars

-----------------------------------------------------------------------------
(* Properties of the rename engine.                                        *)

RenameCalls == {"RenameLoadpoint", "RenameVehicle"}

Renamed == pc = "done" /\ op.name \in RenameCalls

RenameTables == {"sessions", "settings", "configs"}

\* C1: the counts a mutating rename returns are the counts the dry run of
\* the same entity kind and the same names computes on the database as it
\* was before the rename.
C1_DryRunCountsMatch ==
    /\ (pc = "done" /\ op.name = "RenameLoadpoint" /\ ~res.err) =>
          res.result = RenameLoadpointDryRun(pre.dst, op.oldName, op.newName, "none").result
    /\ (pc = "done" /\ op.name = "RenameVehicle" /\ ~res.err) =>
          res.result = RenameVehicleDryRun(pre.dst, op.oldName, op.newName, "none").result

\* A vehicle rename that changed all three representations, one of them
\* through the YAML-style fallback.
C1_Witness ==
    /\ pc = "done" /\ op.name = "RenameVehicle" /\ ~res.err
    /\ res.result.Sessions > 0 /\ res.result.Settings > 0 /\ res.result.Configs > 0
    /\ \E i \in DOMAIN pre.dst["configs"].rows :
          /\ pre.dst["configs"].rows[i].value.kind = "text"
          /\ pre.dst["configs"].rows[i].value # dst["configs"].rows[i].value

\* C2 (as claimed): a rename leaves the row count of sessions, settings
\* and configs as it was, for every pair of names.
C2_RowCountsKept ==
    Renamed => \A t \in RenameTables : Len(dst[t].rows) = Len(pre.dst[t].rows)

\* C3: a rename that returns an error leaves the database as it was; one
\* that returns no error has made every update it counted (for distinct
\* names, a representation with a non-zero count has changed).
C3_RenameAtomic ==
    /\ (Renamed /\ res.err) => dst = pre.dst
    /\ (Renamed /\ ~res.err /\ op.oldName # op.newName) =>
          /\ res.result.Sessions > 0 => dst["sessions"] # pre.dst["sessions"]
          /\ res.result.Settings > 0 => dst["settings"] # pre.dst["settings"]
          /\ res.result.Configs > 0 => dst["configs"] # pre.dst["configs"]

\* A rename that failed in its last step after the first step had
\* renamed sessions inside the transaction.
C3_Witness ==
    /\ Renamed /\ res.err /\ op.fail \in {"configs", "commit"}
    /\ res.result.Sessions > 0
    /\ op.oldName # op.newName
    /\ dst = pre.dst

\* C10 (as claimed): after a successful RenameVehicle every key that had the
\* prefix vehicle.<oldName>. is found under vehicle.<newName>. with its
\* value, no key has the old prefix, and Settings is the number of keys
\* that had the old prefix.
C10_VehicleKeysMoved ==
    (pc = "done" /\ op.name = "RenameVehicle" /\ ~res.err) =>
        LET oldPrefix == sVehicleDot \o op.oldName \o sDot
            newPrefix == sVehicleDot \o op.newName \o sDot
            before    == pre.dst["settings"].rows
            after     == dst["settings"].rows
        IN  /\ \A i \in DOMAIN before :
                  HasPrefix(before[i].key, oldPrefix) =>
                      \E j \in DOMAIN after :
                          /\ after[j].key = newPrefix \o TrimPrefix(before[i].key, oldPrefix)
                          /\ after[j].value = before[i].value
            /\ \A j \in DOMAIN after : ~HasPrefix(after[j].key, oldPrefix)
            /\ res.result.Settings =
                  CountWhere(before, LAMBDA r : HasPrefix(r.key, oldPrefix))

-----------------------------------------------------------------------------
(* Properties of Transfer.                                                 *)

Transferred == pc = "done" /\ op.name = "Transfer"

DryRan  == Transferred /\ op.opts.DryRun
RealRan == Transferred /\ ~op.opts.DryRun

NoDirectives(opts) == opts.LoadpointRenames = <<>> /\ opts.VehicleRenames = <<>>

\* The directives of a transfer in the order Transfer applies them.
Directives(opts) ==
    [j \in 1..Len(opts.LoadpointRenames) |->
        [kind |-> "loadpoint", OldName |-> opts.LoadpointRenames[j].OldName,
         NewName |-> opts.LoadpointRenames[j].NewName]]
    \o
    [j \in 1..Len(opts.VehicleRenames) |->
        [kind |-> "vehicle", OldName |-> opts.VehicleRenames[j].OldName,
         NewName |-> opts.VehicleRenames[j].NewName]]

\* C4: a dry-run Transfer leaves both databases as they were, whether it
\* returns nil or an error; it begins no destination transaction, copies
\* no table and runs no mutating rename.
C4_DryRunChangesNothing ==
    DryRan => /\ dst = pre.dst
              /\ src = pre.src
              /\ ~res.began
              /\ res.copied = <<>>
              /\ res.renames = <<>>

\* A dry run that failed in the preview of a directive, after reporting
\* rows a real run would copy into a destination that lacks them.
C4_Witness ==
    /\ DryRan /\ res.err = "preview" /\ op.fault.at = "rename"
    /\ \E i \in DOMAIN res.out :
          /\ res.out[i].ev = "rows" /\ res.out[i].count > 0
          /\ Len(pre.dst[res.out[i].table].rows) = 0

\* C5: a real Transfer that fails before or at the commit of the table
\* copies leaves the destination as it was and applies no directive.
C5_TransferAllOrNothing ==
    (RealRan /\ res.err \in {"begin", "exists", "copy", "commit"}) =>
        /\ dst = pre.dst
        /\ res.renames = <<>>

\* A transfer with directives that failed in its second table after its
\* first table had been copied into the transaction.
C5_Witness ==
    /\ RealRan /\ res.err = "copy" /\ ~NoDirectives(op.opts)
    /\ Len(res.copied) >= 1 /\ res.copied[1].count > 0
    /\ pre.dst[res.copied[1].table].rows # pre.src[res.copied[1].table].rows
    /\ dst = pre.dst

\* The destination after the first n directives, none of them failing.
RECURSIVE AfterDirectives(_, _, _)
AfterDirectives(db, dirs, n) ==
    IF n = 0 THEN db
    ELSE LET d  == dirs[n]
             db1 == AfterDirectives(db, dirs, n - 1)
         IN  IF d.kind = "loadpoint"
             THEN RenameLoadpoint(db1, d.OldName, d.NewName, "none").db
             ELSE RenameVehicle(db1, d.OldName, d.NewName, "none").db

\* The options without their directives.
WithoutDirectives(opts) ==
    [opts EXCEPT !.LoadpointRenames = <<>>, !.VehicleRenames = <<>>]

\* C6: a directive is run only after the table copies have committed; when
\* the k-th directive fails, the destination holds the copied tables and
\* the effect of directives 1..k-1, nothing of directive k, and no later
\* directive has been run.
C6_RenamesAfterCommit ==
    /\ (RealRan /\ res.renames # <<>>) => res.err \in {"", "rename"}
    /\ (RealRan /\ res.err = "rename") =>
          LET k    == Len(res.renames)
              dirs == Directives(op.opts)
          IN  /\ 1 <= k /\ k <= Len(dirs)
              /\ \A j \in 1..k :
                    /\ res.renames[j].kind = dirs[j].kind
                    /\ res.renames[j].OldName = dirs[j].OldName
                    /\ res.renames[j].NewName = dirs[j].NewName
                    /\ res.renames[j].err = (j = k)
              /\ dst = AfterDirectives(
                          Transfer(pre.src, pre.dst, WithoutDirectives(op.opts), NoFault).dst,
                          dirs, k - 1)

\* The second or third directive failed late, after it had renamed rows in
\* its own transaction; rows were copied and the first directive renamed
\* some of them.
C6_Witness ==
    /\ RealRan /\ res.err = "rename" /\ Len(res.renames) >= 2
    /\ op.fault.step \in {"configs", "commit"}
    /\ res.renames[Len(res.renames)].result.Sessions > 0
    /\ res.renames[1].result.Sessions > 0
    /\ \E i \in DOMAIN res.copied : res.copied[i].count > 0
    /\ dst # pre.dst

\* The lines of a given kind among the printed lines.
Lines(out, ev) == SelectSeq(out, LAMBDA e : e.ev = ev)

\* C7 (as claimed): for a real Transfer that succeeded, the dry run with the
\* same databases and options reports, per table, the rows the real run
\* copied, and per directive the counts the real run's rename returned.
C7_DryRunReportsRealCounts ==
    (RealRan /\ res.err = "") =>
        LET dry == Transfer(pre.src, pre.dst, [op.opts EXCEPT !.DryRun = TRUE], NoFault)
            tbl == Lines(dry.out, "rows")
            ren == Lines(dry.out, "rename")
        IN  /\ dry.err = ""
            /\ [i \in DOMAIN tbl |-> [table |-> tbl[i].table, count |-> tbl[i].count]]
                  = res.copied
            /\ [j \in DOMAIN ren |-> ren[j].result]
                  = [j \in DOMAIN res.renames |-> res.renames[j].result]

\* The names of the columns a copy of table t transfers.
CommonNames(t) == ColNames(intersectColumns(pre.src[t].cols, pre.dst[t].cols))

\* A real Transfer without directives that succeeded: what the destination
\* holds is what the table copies left.
Copied == RealRan /\ res.err = "" /\ NoDirectives(op.opts)

\* C8 (as claimed): a table that was empty in the destination holds, after
\* its copy, as many rows as the source table, and the copy returns that
\* number.
C8_CopyIntoEmptyKeepsCount ==
    Copied =>
        \A i \in DOMAIN res.copied :
            LET t == res.copied[i].table
            IN  pre.dst[t].rows = <<>> =>
                    /\ Len(dst[t].rows) = Len(pre.src[t].rows)
                    /\ res.copied[i].count = Len(pre.src[t].rows)

\* No two source rows of table t agree on all the primary-key columns of
\* the destination table.
SourceKeysDistinct(t) ==
    LET rows == pre.src[t].rows
        key  == PrimaryCols(pre.dst[t].cols)
    IN  (key # {} /\ key \subseteq CommonNames(t)) =>
            \A i, j \in DOMAIN rows :
                i # j => \E c \in key : rows[i][c] # rows[j][c]

\* C8 (amended): the same, for a table no two source rows of which agree on
\* the destination's primary key; the returned count is the source row
\* count in every case.
C8_CopyIntoEmptyKeepsCount_DistinctKeys ==
    Copied =>
        \A i \in DOMAIN res.copied :
            LET t == res.copied[i].table
            IN  pre.dst[t].rows = <<>> =>
                    /\ SourceKeysDistinct(t) => Len(dst[t].rows) = Len(pre.src[t].rows)
                    /\ res.copied[i].count = Len(pre.src[t].rows)

\* Two rows were copied into an empty table that has a column the source
\* lacks.
C8_Witness ==
    /\ Copied
    /\ \E i \in DOMAIN res.copied :
          LET t == res.copied[i].table
          IN  /\ pre.dst[t].rows = <<>>
              /\ res.copied[i].count >= 2
              /\ Len(dst[t].rows) = res.copied[i].count
              /\ ColNames(pre.dst[t].cols) # CommonNames(t)

\* Rows r and s agree on the key columns.
SameKey(key, r, s) == \A c \in key : r[c] = s[c]

\* C9 (as claimed): in the destination row a copied source row ends up in,
\* a column that is not copied holds its default if the row is new, and
\* the value it held before if a row with that primary key existed.
C9_UncopiedColumnsKept ==
    Copied =>
        \A i \in DOMAIN res.copied :
            LET t     == res.copied[i].table
                key   == PrimaryCols(pre.dst[t].cols)
                extra == ColNames(pre.dst[t].cols) \ CommonNames(t)
                old   == pre.dst[t].rows
                new   == dst[t].rows
            IN  (key # {} /\ key \subseteq CommonNames(t)) =>
                  \A n \in DOMAIN new, m \in DOMAIN pre.src[t].rows :
                      SameKey(key, new[n], pre.src[t].rows[m]) =>
                          \A c \in extra :
                              IF \E o \in DOMAIN old : SameKey(key, old[o], new[n])
                              THEN \E o \in DOMAIN old :
                                      /\ SameKey(key, old[o], new[n])
                                      /\ new[n][c] = old[o][c]
                              ELSE new[n][c] = ColDefault(pre.dst[t].cols, c)

-----------------------------------------------------------------------------
(* Properties of repeated and of idle renames.                             *)

\* The mutating rename of the given call name, nothing failing.
RenameAs(name, db, oldName, newName) ==
    IF name = "RenameLoadpoint"
    THEN RenameLoadpoint(db, oldName, newName, "none")
    ELSE RenameVehicle(db, oldName, newName, "none")

\* A rename that returned no error.
RenamedOK == Renamed /\ ~res.err

\* C11 (as claimed): the same rename applied again returns Sessions = 0 and
\* Settings = 0 and leaves the database as the first application left it.
C11_SecondRenameIdle ==
    RenamedOK =>
        \A again \in {RenameAs(op.name, dst, op.oldName, op.newName)} :
            /\ ~again.err
            /\ again.result.Sessions = 0
            /\ again.result.Settings = 0
            /\ again.db = dst

\* The title attribute of every configs row, in row order: the decoded
\* title of a JSON object, the whole text of any other value.
ConfigTitles(t) ==
    [i \in DOMAIN t.rows |->
        IF t.rows[i].value.kind = "json"
        THEN TitleOf(JSONUnmarshal(t.rows[i].value).data)
        ELSE [ok |-> TRUE, title |-> t.rows[i].value.text]]

\* C12 (as claimed): renaming oldName to newName and then newName back to
\* oldName restores the sessions rows, the settings keys with their values
\* and the configs title attributes.
C12_RenameBackRestores ==
    RenamedOK =>
        \A back \in {RenameAs(op.name, dst, op.newName, op.oldName)} :
            /\ ~back.err
            /\ back.db["sessions"] = pre.dst["sessions"]
            /\ RowSet(back.db["settings"]) = RowSet(pre.dst["settings"])
            /\ ConfigTitles(back.db["configs"]) = ConfigTitles(pre.dst["configs"])

\* strings.HasSuffix, byte-exact.
HasSuffix(s, suffix) ==
    /\ Len(s) >= Len(suffix)
    /\ SubSeq(s, Len(s) - Len(suffix) + 1, Len(s)) = suffix

\* The title of a configs value is name: the decoded title of a JSON
\* object, or the text title: <name> in a value that is no JSON object.
TitleIs(value, name) ==
    IF value.kind = "json"
    THEN TitleOf(JSONUnmarshal(value).data) = [ok |-> TRUE, title |-> name]
    ELSE Contains(value.text, sTitleColon \o name)

\* Nothing in the three representations of the entity kind carries name:
\* no sessions row in the kind's column, no lp<n>.title value (loadpoint)
\* or vehicle.<name>. key (vehicle), no configs title of the kind's class.
MatchesNothing(call, db, name) ==
    LET column == IF call = "RenameLoadpoint" THEN "loadpoint" ELSE "vehicle"
        class  == IF call = "RenameLoadpoint" THEN 5 ELSE 3
        keyed(r) == IF call = "RenameLoadpoint"
                    THEN /\ HasPrefix(r.key, <<"l", "p">>)
                         /\ HasSuffix(r.key, <<".", "t", "i", "t", "l", "e">>)
                         /\ r.value = name
                    ELSE HasPrefix(r.key, sVehicleDot \o name \o sDot)
    IN  /\ \A i \in DOMAIN db["sessions"].rows : db["sessions"].rows[i][column] # name
        /\ \A i \in DOMAIN db["settings"].rows : ~keyed(db["settings"].rows[i])
        /\ \A i \in DOMAIN db["configs"].rows :
              db["configs"].rows[i].class = class =>
                  ~TitleIs(db["configs"].rows[i].value, name)

\* C13 (as claimed): renaming a name that matches nothing returns the counts
\* {0, 0, 0} and no error and leaves the database as it was.
C13_NoMatchNoEffect ==
    (Renamed /\ op.fail = "none" /\ MatchesNothing(op.name, pre.dst, op.oldName)) =>
        /\ ~res.err
        /\ res.result = NoCounts
        /\ dst = pre.dst

-----------------------------------------------------------------------------
(* The client's own calls: table resolution, introspection, session        *)
(* deletion.  One call per behaviour step on a database of ClientDBs.      *)

\* The longest explicit table list passed to ResolveTables.
MaxTables == 2

\* The table names a caller passes: known tables, an unknown well-formed
\* name, and names the identifier grammar rejects.
TableInputs == {"settings", "sessions", "configs", "_x9", "t;--", "2fast", "a b", ""}

\* The modes a caller passes: the three named ones and two others.
ModeInputs == {TransferConfig, TransferMetrics, TransferAll, 3, -1}

TableLists == UNION {[1..n -> TableInputs] : n \in 0..MaxTables}

ResolveInputs ==
    {[Mode |-> m, Tables |-> ts, DryRun |-> FALSE, OnProgress |-> FALSE,
      LoadpointRenames |-> <<>>, VehicleRenames |-> <<>>] :
        m \in ModeInputs, ts \in TableLists}

\* Databases with every choice of the candidate sessions rows, and the
\* destinations with a missing table, an extra column and other rows.
ClientDBs ==
    {[EmptyDB EXCEPT !["sessions"].rows = Pick(SessionRows, a)] :
        a \in SUBSET DOMAIN SessionRows}
    \union {DstNoConfigs, DstExtraColumn, DstWithRows, DstOtherColumns}

\* A statement whose text is formatted from a table name: the name is put
\* between backquotes as it is (fmt.Sprintf with `%s`).
Statement(sql, db, table) == [sql |-> sql, db |-> db, table |-> table]

\* A copy that queries the rows of an empty source table all the same.
copyTableStatements_AlwaysSelects(srcDB, dstDB, table, fault) ==
    LET srcInfo == <<Statement("PRAGMA table_info", "src", table)>>
        dstInfo == <<Statement("PRAGMA table_info", "dst", table)>>
        count   == <<Statement("SELECT COUNT(*) FROM", "src", table)>>
        select  == <<Statement("SELECT FROM", "src", table)>>
        insert  == <<Statement("INSERT OR REPLACE INTO", "dst", table)>>
        commonCols == intersectColumns(GetTableColumns(srcDB, table),
                                       GetTableColumns(dstDB, table))
        rows    == GetRowCount(srcDB, table)
    IN  IF fault.at = "srccols" THEN srcInfo
        ELSE IF fault.at = "dstcols" \/ Len(commonCols) = 0 THEN srcInfo \o dstInfo
        ELSE IF fault.at = "count" \/ rows.err THEN srcInfo \o dstInfo \o count
        ELSE IF fault.at = "query" \/ rows.count = 0
        THEN srcInfo \o dstInfo \o count \o select
        ELSE srcInfo \o dstInfo \o count \o select \o insert

\* The statements one copyTableWithTx formats from the table name, in
\* order, up to the call that returns the error.
copyTableStatements(srcDB, dstDB, table, fault) ==
    LET srcInfo == <<Statement("PRAGMA table_info", "src", table)>>
        dstInfo == <<Statement("PRAGMA table_info", "dst", table)>>
        count   == <<Statement("SELECT COUNT(*) FROM", "src", table)>>
        select  == <<Statement("SELECT FROM", "src", table)>>
        insert  == <<Statement("INSERT OR REPLACE INTO", "dst", table)>>
        commonCols == intersectColumns(GetTableColumns(srcDB, table),
                                       GetTableColumns(dstDB, table))
        rows    == GetRowCount(srcDB, table)
    IN  IF fault.at = "srccols" THEN srcInfo
        ELSE IF fault.at = "dstcols" \/ Len(commonCols) = 0 THEN srcInfo \o dstInfo
        ELSE IF fault.at = "count" \/ rows.err \/ rows.count = 0
        THEN srcInfo \o dstInfo \o count
        ELSE IF fault.at = "query" THEN srcInfo \o dstInfo \o count \o select
        ELSE srcInfo \o dstInfo \o count \o select \o insert

\* The table loop of CopyTablesTo: copyTableWithTx for each name of the
\* caller's list, as it is; the first error ends the loop.
RECURSIVE copyTablesToLoop(_, _, _, _, _, _)
copyTablesToLoop(tx, srcDB, dstDB, tables, i, fault) ==
    IF i > Len(tables) THEN [tx |-> tx, err |-> FALSE, statements |-> <<>>]
    ELSE LET f == IF fault.i = i THEN fault ELSE NoFault
             stmts == copyTableStatements(srcDB, dstDB, tables[i], f)
             then(c) ==
                 IF c.err THEN [tx |-> c.tx, err |-> TRUE, statements |-> stmts]
                 ELSE Only({[rest EXCEPT !.statements = stmts \o @] :
                              rest \in {copyTablesToLoop(c.tx, srcDB, dstDB, tables,
                                                         i + 1, fault)}})
         IN  Only({then(c) :
                     c \in {copyTableWithTx(tx, srcDB, dstDB, tables[i], f)}})

\* A CopyTablesTo that commits what was copied before the failing table.
CopyTablesTo_CommitsCopied(srcDB, dstDB, tables, fault) ==
    IF fault.at = "begin" THEN [dst |-> dstDB, err |-> TRUE, statements |-> <<>>]
    ELSE Only({[dst |-> Commit(dstDB, loop.tx),
                err |-> loop.err \/ fault.at = "commit",
                statements |-> loop.statements] :
                  loop \in {copyTablesToLoop(dstDB, srcDB, dstDB, tables, 1, fault)}})

\* CopyTablesTo: one destination transaction for the tables of the
\* caller's list, committed when every copy succeeded.
CopyTablesTo(srcDB, dstDB, tables, fault) ==
    IF fault.at = "begin" THEN [dst |-> dstDB, err |-> TRUE, statements |-> <<>>]
    ELSE Only({IF loop.err \/ fault.at = "commit"
               THEN [dst |-> Rollback(dstDB, loop.tx), err |-> TRUE,
                     statements |-> loop.statements]
               ELSE [dst |-> Commit(dstDB, loop.tx), err |-> FALSE,
                     statements |-> loop.statements] :
                  loop \in {copyTablesToLoop(dstDB, srcDB, dstDB, tables, 1, fault)}})

\* The database calls of a CopyTablesTo that can fail.
CopyFaults(tables) ==
    {NoFault, Fault("begin", 0, 0, "none"), Fault("commit", 0, 0, "none")}
    \union {Fault(at, i, 0, "none") :
               at \in {"srccols", "dstcols", "count", "query"}, i \in DOMAIN tables}
    \union {Fault(at, i, 1, "none") : at \in {"scan", "insert"}, i \in DOMAIN tables}

\* What GetTableColumns returns: the columns, and an error only when the
\* PRAGMA query itself fails.
GetTableColumnsCall(db, table, fails) ==
    IF fails THEN [columns |-> <<>>, err |-> TRUE]
    ELSE [columns |-> GetTableColumns(db, table), err |-> FALSE]

\* The names GetTableColumns is asked about: the tables of the schema and
\* one name that is no table.
ColumnInputs == TableNames \union {"_x9"}

\* A deletion that matches the name with LIKE instead of =.
DeleteLoadpointSessions_Like(db, loadpoint, fails) ==
    IF fails \/ ~HasColumn(db, "sessions", "loadpoint")
    THEN [db |-> db, count |-> 0, err |-> TRUE]
    ELSE [db    |-> [db EXCEPT !["sessions"].rows =
                        DeleteWhere(@, LAMBDA r : Like(r.loadpoint, loadpoint))],
          count |-> CountWhere(db["sessions"].rows, LAMBDA r : Like(r.loadpoint, loadpoint)),
          err   |-> FALSE]

\* DeleteLoadpointSessions: DELETE FROM sessions WHERE loadpoint = ?,
\* returning the rows affected.
DeleteLoadpointSessions(db, loadpoint, fails) ==
    IF fails \/ ~HasColumn(db, "sessions", "loadpoint")
    THEN [db |-> db, count |-> 0, err |-> TRUE]
    ELSE [db    |-> [db EXCEPT !["sessions"].rows =
                        DeleteWhere(@, LAMBDA r : r.loadpoint = loadpoint)],
          count |-> CountWhere(db["sessions"].rows, LAMBDA r : r.loadpoint = loadpoint),
          err   |-> FALSE]

\* DeleteVehicleSessions: DELETE FROM sessions WHERE vehicle = ?
DeleteVehicleSessions(db, vehicle, fails) ==
    IF fails \/ ~HasColumn(db, "sessions", "vehicle")
    THEN [db |-> db, count |-> 0, err |-> TRUE]
    ELSE [db    |-> [db EXCEPT !["sessions"].rows =
                        DeleteWhere(@, LAMBDA r : r.vehicle = vehicle)],
          count |-> CountWhere(db["sessions"].rows, LAMBDA r : r.vehicle = vehicle),
          err   |-> FALSE]

\* CountLoadpointSessions: SELECT COUNT(*) FROM sessions WHERE loadpoint = ?
CountLoadpointSessions(db, loadpoint, fails) ==
    IF fails \/ ~HasColumn(db, "sessions", "loadpoint")
    THEN [count |-> 0, err |-> TRUE]
    ELSE [count |-> CountWhere(db["sessions"].rows, LAMBDA r : r.loadpoint = loadpoint),
          err   |-> FALSE]

\* CountVehicleSessions: SELECT COUNT(*) FROM sessions WHERE vehicle = ?
CountVehicleSessions(db, vehicle, fails) ==
    IF fails \/ ~HasColumn(db, "sessions", "vehicle")
    THEN [count |-> 0, err |-> TRUE]
    ELSE [count |-> CountWhere(db["sessions"].rows, LAMBDA r : r.vehicle = vehicle),
          err   |-> FALSE]

\* The columns intersectColumns is given: id as INTEGER or as TEXT, name,
\* extra; a column list holds each name at most once.
ColumnCandidates ==
    {Col("id", "INTEGER", 0, TRUE), Col("id", "TEXT", NULL, FALSE),
     Col("name", "TEXT", NULL, FALSE), Col("extra", "TEXT", NULL, FALSE)}

ColumnLists ==
    {cols \in UNION {[1..n -> ColumnCandidates] :
                        n \in 0..Cardinality({c.Name : c \in ColumnCandidates})} :
        \A i, j \in DOMAIN cols : i # j => cols[i].Name # cols[j].Name}

-----------------------------------------------------------------------------
(* export.go and import.go.  An export file is [Version, Tables]: Tables   *)
(* maps the name of each exported table to its rows, each row a map from   *)
(* column name to a JSON value [t, v] with t one of "null", "str", "num".  *)

\* Go's float64 has 53 mantissa bits; the model scales them down so that
\* the first integer that is no float64 fits TLC's integers.
MantissaBits == 20

\* 2^53 in Go: up to it every integer is a float64.
MaxExact == 2 ^ MantissaBits

\* The float64 nearest to an integer 0 <= n < 2 * MaxExact, ties to the
\* even mantissa.
Float64Of(n) ==
    IF n <= MaxExact \/ n % 2 = 0 THEN n
    ELSE IF (n + 1) % 4 = 0 THEN n + 1 ELSE n - 1

FNull    == [t |-> "null", v |-> <<>>]
FStr(s)  == [t |-> "str", v |-> s]
FNum(n)  == [t |-> "num", v |-> n]

\* The value exportTable puts in a row map and the encoder writes: an
\* INTEGER as the number it is, a NULL as null, a TEXT as a string.
exportValue(type, cell) ==
    IF type = "INTEGER" THEN FNum(cell)
    ELSE IF cell = NULL THEN FNull
    ELSE FStr(cell)

\* A configs value is held as a blob [kind, fields, text]: the text the
\* column holds, and the blob that a text is.
CellText(table, c, cell) ==
    IF table = "configs" /\ c = "value" THEN RawText(cell) ELSE cell

CellOf(table, c, text) ==
    IF table = "configs" /\ c = "value" /\ text # NULL
    THEN LET known == {ConfigRows[i].value : i \in DOMAIN ConfigRows}
             same  == {b \in known : b.kind = "json" /\ RawText(b) = text}
         IN  IF same # {} THEN CHOOSE b \in same : TRUE ELSE TextBlob(text)
    ELSE text

\* exportTable: SELECT * FROM table, each row a map by column name.
exportTable(db, table) ==
    [i \in DOMAIN db[table].rows |->
        [c \in ColNames(db[table].cols) |->
            exportValue(ColType(db[table].cols, c),
                        CellText(table, c, db[table].rows[i][c]))]]

\* What the encoder writes for a table's rows: a table without rows is a
\* nil slice, written as null.
TableEntry(rows) == [null |-> rows = <<>>, rows |-> rows]

\* The loop of ExportJSON over the resolved tables.
RECURSIVE exportTables(_, _, _, _, _)
exportTables(db, tables, i, opts, fault) ==
    IF i > Len(tables) THEN [data |-> <<>>, err |-> FALSE, progress |-> <<>>]
    ELSE LET table == tables[i]
             stop  == [data |-> <<>>, err |-> TRUE, progress |-> <<>>]
             rest  == exportTables(db, tables, i + 1, opts, fault)
         IN  IF fault.at = "exists" /\ fault.i = i THEN stop
             ELSE IF ~TableExists(db, table) THEN rest
             ELSE IF fault.at = "query" /\ fault.i = i THEN stop
             ELSE Only({[rest EXCEPT
                                !.data = <<[table |-> table, rows |-> rows]>> \o @,
                                !.progress = IF opts.OnProgress
                                             THEN <<[table |-> table,
                                                     count |-> Len(rows)]>> \o @
                                             ELSE @] :
                          rows \in {exportTable(db, table)}})

NoFile == [Version |-> "", Tables |-> <<>>]

\* ExportJSON: resolve, export each table that exists, then encode; the
\* file is written only when nothing failed.  A table named twice is in
\* the file once, with the rows of its last export.
ExportJSON(db, opts, fault) ==
    LET failed == [file |-> NoFile, err |-> TRUE, progress |-> <<>>]
        after(resolved) ==
            Only({IF ex.err THEN [failed EXCEPT !.progress = ex.progress]
                  ELSE IF fault.at = "encode"
                  THEN [failed EXCEPT !.progress = ex.progress]
                  ELSE [file |-> [Version |-> "1",
                                  Tables |->
                                     [t \in {ex.data[n].table : n \in DOMAIN ex.data} |->
                                        TableEntry(ex.data[MaxOf({n \in DOMAIN ex.data :
                                                       ex.data[n].table = t})].rows)]],
                        err |-> FALSE, progress |-> ex.progress] :
                     ex \in {exportTables(db, resolved.tables, 1, opts, fault)}})
    IN  Only({IF resolved.err THEN failed ELSE after(resolved) :
                 resolved \in {ResolveTables(opts)}})

\* Decoding into map[string]any: every number becomes a float64.
decodeValue(v) == IF v.t = "num" THEN FNum(Float64Of(v.v)) ELSE v

\* escapeSQL: every single quote doubled.
RECURSIVE escapeSQL(_)
escapeSQL(s) ==
    IF s = <<>> THEN <<>>
    ELSE (IF Head(s) = "'" THEN <<"'", "'">> ELSE <<Head(s)>>) \o escapeSQL(Tail(s))

\* formatValueForSQL: NULL, a quoted string, or the number as %v prints it
\* (the shortest text that reads back as the same float64).
formatValueForSQL(val) ==
    CASE val.t = "null" -> [lit |-> "NULL", text |-> <<>>, n |-> 0]
      [] val.t = "str"  -> [lit |-> "string",
                            text |-> <<"'">> \o escapeSQL(val.v) \o <<"'">>, n |-> 0]
      [] val.t = "num"  -> [lit |-> "number", text |-> <<>>, n |-> val.v]

\* SQLite reading the body of a string literal: two quotes are one.
RECURSIVE unquoteSQL(_)
unquoteSQL(s) ==
    IF s = <<>> THEN <<>>
    ELSE IF Len(s) >= 2 /\ s[1] = "'" /\ s[2] = "'"
    THEN <<"'">> \o unquoteSQL(SubSeq(s, 3, Len(s)))
    ELSE <<Head(s)>> \o unquoteSQL(Tail(s))

\* The value SQLite stores for a literal: a number with an integral value
\* is stored as that integer in an INTEGER column.
literalValue(l) ==
    CASE l.lit = "NULL"   -> NULL
      [] l.lit = "string" -> unquoteSQL(SubSeq(l.text, 2, Len(l.text) - 1))
      [] l.lit = "number" -> l.n

\* The row loop of importTableWithTx: the columns the table has are
\* written with INSERT OR REPLACE; a row with none of them (or an element
\* that is no object) is passed over.
RECURSIVE importRows(_, _, _, _, _, _, _)
importRows(table, t, names, rows, k, count, fault) ==
    IF k > Len(rows) THEN [t |-> t, count |-> count, err |-> FALSE]
    ELSE LET filtered == DOMAIN rows[k] \cap names
         IN  IF filtered = {} THEN importRows(table, t, names, rows, k + 1, count, fault)
             ELSE IF fault.at = "insert" /\ fault.k = k
             THEN [t |-> t, count |-> 0, err |-> TRUE]
             ELSE Only({importRows(table, t1, names, rows, k + 1, count + 1, fault) :
                          t1 \in {InsertOrReplace(t,
                                    [c \in filtered |->
                                        CellOf(table, c,
                                          literalValue(formatValueForSQL(rows[k][c])))])}})

\* importTableWithTx: the column names come from the client's connection
\* (none for a table the database lacks: every row is then passed over),
\* the rows go into the transaction.
importTableWithTx(db, tx, table, rows, fault) ==
    IF fault.at = "cols" THEN [tx |-> tx, count |-> 0, err |-> TRUE]
    ELSE Only({IF cols = <<>> THEN [tx |-> tx, count |-> 0, err |-> FALSE]
               ELSE Only({[tx |-> [tx EXCEPT ![table] = done.t],
                           count |-> done.count, err |-> done.err] :
                             done \in {importRows(table, tx[table], ColNames(cols), rows,
                                                  1, 0, fault)}}) :
                  cols \in {GetTableColumns(db, table)}})

\* The table loop of ImportJSON: a table the file lacks, or whose entry is
\* no array, is passed over.
RECURSIVE importTables(_, _, _, _, _, _, _)
importTables(db, tx, export, tables, i, opts, fault) ==
    IF i > Len(tables) THEN [tx |-> tx, err |-> FALSE, progress |-> <<>>]
    ELSE LET table == tables[i]
             next(t) == importTables(db, t, export, tables, i + 1, opts, fault)
             then(r) ==
                 IF r.err THEN [tx |-> r.tx, err |-> TRUE, progress |-> <<>>]
                 ELSE Only({[rest EXCEPT
                               !.progress = IF opts.OnProgress
                                            THEN <<[table |-> table,
                                                    count |-> r.count]>> \o @
                                            ELSE @] :
                              rest \in {next(r.tx)}})
         IN  IF table \notin DOMAIN export.Tables THEN next(tx)
             ELSE IF export.Tables[table].null THEN next(tx)
             ELSE Only({then(r) :
                          r \in {importTableWithTx(db, tx, table,
                                    [k \in DOMAIN export.Tables[table].rows |->
                                        [c \in DOMAIN export.Tables[table].rows[k] |->
                                            decodeValue(export.Tables[table].rows[k][c])]],
                                    IF fault.i = i THEN fault ELSE NoFault)}})

\* ImportJSON: decode, check the version, begin, choose the tables (with
\* mode all the names of the file, in the order the map yields them:
\* order), import each, commit.
ImportJSON(db, export, opts, order, fault) ==
    LET failed(p) == [db |-> db, err |-> TRUE, began |-> p # "none", progress |-> <<>>]
        tables == IF Len(opts.Tables) > 0 THEN opts.Tables
                  ELSE CASE opts.Mode = TransferConfig  -> GetConfigTables
                         [] opts.Mode = TransferMetrics -> GetMetricsTables
                         [] OTHER                       -> order
    IN  IF fault.at = "decode" THEN failed("none")
        ELSE IF export.Version # "1" THEN failed("none")
        ELSE IF fault.at = "begin" THEN failed("none")
        ELSE IF Len(opts.Tables) = 0
                /\ opts.Mode \notin {TransferConfig, TransferMetrics, TransferAll}
        THEN failed("tx")
        ELSE Only({IF done.err \/ fault.at = "commit"
                   THEN [db |-> Rollback(db, done.tx), err |-> TRUE, began |-> TRUE,
                         progress |-> done.progress]
                   ELSE [db |-> Commit(db, done.tx), err |-> FALSE, began |-> TRUE,
                         progress |-> done.progress] :
                      done \in {importTables(db, db, export, tables, 1, opts, fault)}})

\* The most tables of a file whose every order the import is tried with.
MaxShuffled == 3

\* The orders in which ranging over the file's tables can yield them: all
\* of them for up to MaxShuffled tables, else the order of GetAllTables
\* and its reverse.
Orders(S) ==
    IF Cardinality(S) <= MaxShuffled
    THEN {f \in [1..Cardinality(S) -> S] : \A i, j \in DOMAIN f : i # j => f[i] # f[j]}
    ELSE LET one == SelectSeq(GetAllTables, LAMBDA t : t \in S)
         IN  {one, [i \in DOMAIN one |-> one[Len(one) + 1 - i]]}

\* A source whose sessions have the ids 2^53 and 2^53 + 1.
SrcBigIds ==
    [EmptyDB EXCEPT
        !["sessions"].rows = <<[id |-> MaxExact, loadpoint |-> nA, vehicle |-> nA],
                               [id |-> MaxExact + 1, loadpoint |-> nB, vehicle |-> NULL]>>]

\* A source with a quote in a settings value and a NULL in another.
SrcQuoted ==
    [EmptyDB EXCEPT
        !["settings"].rows = <<[key |-> kTitle("1"), value |-> <<"o", "'", "c">>],
                               [key |-> kMode("1"), value |-> NULL]>>,
        !["configs"].rows = SubSeq(ConfigRows, 1, 2)]

\* The sources CopyTablesTo and ExportJSON read: empty, with sessions and
\* settings rows, with the old meters table, with large ids, with quotes.
ClientSrcDBs ==
    {EmptyDB,
     [EmptyDB EXCEPT !["sessions"].rows = SrcSessionRows,
                     !["settings"].rows = SrcSettingRows],
     SrcOldMeters, SrcBigIds, SrcQuoted}

\* The options of an export or import: each mode, an unknown mode, an
\* explicit list, a list with an ill-formed name.
FileOptions ==
    {[Mode |-> sel[1], Tables |-> sel[2], DryRun |-> FALSE, OnProgress |-> TRUE,
      LoadpointRenames |-> <<>>, VehicleRenames |-> <<>>] :
        sel \in {<<TransferConfig, <<>> >>, <<TransferMetrics, <<>> >>,
                 <<TransferAll, <<>> >>, <<3, <<>> >>,
                 <<TransferConfig, <<"sessions", "settings">> >>,
                 <<TransferAll, <<"t;--">> >>}}

\* The database calls of an ExportJSON that can fail.
ExportFaults(opts) ==
    IF ResolveTables(opts).err THEN {NoFault}
    ELSE {NoFault, Fault("encode", 0, 0, "none")}
         \union {Fault(at, i, 0, "none") : at \in {"exists", "query"}, i \in FaultTables}

\* The files an import reads: what ExportJSON wrote for a database, and
\* the same with another version.
FilesOf(db) ==
    {[Only({ExportJSON(db, o, NoFault)}).file EXCEPT !.Version = v] :
        o \in {x \in FileOptions : ~ResolveTables(x).err}, v \in {"1", "2"}}

\* The calls of an ImportJSON that can fail.
ImportFaults ==
    {NoFault, Fault("decode", 0, 0, "none"), Fault("begin", 0, 0, "none"),
     Fault("commit", 0, 0, "none")}
    \union {Fault("cols", i, 0, "none") : i \in FaultTables}
    \union {Fault("insert", i, k, "none") : i \in FaultTables, k \in 1..2}

InitClient ==
    /\ src \in ClientSrcDBs
    /\ dst \in ClientDBs
    /\ pre = [src |-> src, dst |-> dst]
    /\ op = Idle
    /\ res = Idle
    /\ pc = "idle"

DoResolveTables ==
    /\ pc = "idle"
    /\ \E opts \in ResolveInputs :
          /\ res' = ResolveTables(opts)
          /\ op' = [name |-> "ResolveTables", opts |-> opts]
    /\ pre' = [src |-> src, dst |-> dst]
    /\ pc' = "done"
    /\ UNCHANGED <<src, dst>>

DoCopyTablesTo ==
    /\ pc = "idle"
    /\ \E tables \in TableLists : \E fault \in CopyFaults(tables) :
       \E r \in {CopyTablesTo(src, dst, tables, fault)} :
          /\ dst' = r.dst
          /\ res' = [err |-> r.err, statements |-> r.statements]
          /\ op' = [name |-> "CopyTablesTo", tables |-> tables, fault |-> fault]
    /\ pre' = [src |-> src, dst |-> dst]
    /\ pc' = "done"
    /\ UNCHANGED src

DoGetTableColumns ==
    /\ pc = "idle"
    /\ \E table \in ColumnInputs : \E fails \in BOOLEAN :
          /\ res' = GetTableColumnsCall(dst, table, fails)
          /\ op' = [name |-> "GetTableColumns", table |-> table, fails |-> fails]
    /\ pre' = [src |-> src, dst |-> dst]
    /\ pc' = "done"
    /\ UNCHANGED <<src, dst>>

DoDeleteLoadpointSessions ==
    /\ pc = "idle"
    /\ \E name \in Names : \E fails \in BOOLEAN :
       \E r \in {DeleteLoadpointSessions(dst, name, fails)} :
          /\ dst' = r.db
          /\ res' = [count |-> r.count, err |-> r.err]
          /\ op' = [name |-> "DeleteLoadpointSessions", arg |-> name, fails |-> fails]
    /\ pre' = [src |-> src, dst |-> dst]
    /\ pc' = "done"
    /\ UNCHANGED src

DoDeleteVehicleSessions ==
    /\ pc = "idle"
    /\ \E name \in Names : \E fails \in BOOLEAN :
       \E r \in {DeleteVehicleSessions(dst, name, fails)} :
          /\ dst' = r.db
          /\ res' = [count |-> r.count, err |-> r.err]
          /\ op' = [name |-> "DeleteVehicleSessions", arg |-> name, fails |-> fails]
    /\ pre' = [src |-> src, dst |-> dst]
    /\ pc' = "done"
    /\ UNCHANGED src

DoCountLoadpointSessions ==
    /\ pc = "idle"
    /\ \E name \in Names : \E fails \in BOOLEAN :
          /\ res' = CountLoadpointSessions(dst, name, fails)
          /\ op' = [name |-> "CountLoadpointSessions", arg |-> name, fails |-> fails]
    /\ pre' = [src |-> src, dst |-> dst]
    /\ pc' = "done"
    /\ UNCHANGED <<src, dst>>

DoCountVehicleSessions ==
    /\ pc = "idle"
    /\ \E name \in Names : \E fails \in BOOLEAN :
          /\ res' = CountVehicleSessions(dst, name, fails)
          /\ op' = [name |-> "CountVehicleSessions", arg |-> name, fails |-> fails]
    /\ pre' = [src |-> src, dst |-> dst]
    /\ pc' = "done"
    /\ UNCHANGED <<src, dst>>

DoIntersectColumns ==
    /\ pc = "idle"
    /\ \E srcCols \in ColumnLists, dstCols \in ColumnLists :
          /\ res' = [cols |-> intersectColumns(srcCols, dstCols)]
          /\ op' = [name |-> "intersectColumns", src |-> srcCols, dst |-> dstCols]
    /\ pre' = [src |-> src, dst |-> dst]
    /\ pc' = "done"
    /\ UNCHANGED <<src, dst>>

DoExportJSON ==
    /\ pc = "idle"
    /\ \E opts \in FileOptions : \E fault \in ExportFaults(opts) :
       \E r \in {ExportJSON(src, opts, fault)} :
          /\ res' = [file |-> r.file, err |-> r.err, progress |-> r.progress]
          /\ op' = [name |-> "ExportJSON", opts |-> opts, fault |-> fault]
    /\ pre' = [src |-> src, dst |-> dst]
    /\ pc' = "done"
    /\ UNCHANGED <<src, dst>>

DoImportJSON ==
    /\ pc = "idle"
    /\ \E export \in FilesOf(src), opts \in FileOptions, fault \in ImportFaults :
       \E order \in IF opts.Mode = TransferAll /\ opts.Tables = <<>>
                    THEN Orders(DOMAIN export.Tables) ELSE {<<>>} :
       \E r \in {ImportJSON(dst, export, opts, order, fault)} :
          /\ dst' = r.db
          /\ res' = [err |-> r.err, began |-> r.began, progress |-> r.progress]
          /\ op' = [name |-> "ImportJSON", export |-> export, opts |-> opts,
                    order |-> order, fault |-> fault]
    /\ pre' = [src |-> src, dst |-> dst]
    /\ pc' = "done"
    /\ UNCHANGED src

\* The tables one copyTableWithTx is called for, and the transactions it
\* is called in: a fresh one, or one in which the copy of another table
\* has written its rows.
CopiedTables == {"sessions", "settings", "configs"}

CallerTransactions(srcDB, dstDB, table) ==
    {dstDB} \union {copyTableWithTx(dstDB, srcDB, dstDB, earlier, NoFault).tx :
                       earlier \in CopiedTables \ {table}}

\* One copyTableWithTx inside the caller's transaction; the caller has not
\* committed, the database is as it was.
DoCopyTableWithTx ==
    /\ pc = "idle"
    /\ \E table \in CopiedTables :
       \E tx \in CallerTransactions(src, dst, table) :
       \E fault \in CopyFaults(<<table>>) \ {Fault("begin", 0, 0, "none"),
                                              Fault("commit", 0, 0, "none")} :
       \E r \in {copyTableWithTx(tx, src, dst, table, fault)} :
          /\ res' = [tx |-> r.tx, copied |-> r.copied, err |-> r.err,
                     statements |-> copyTableStatements(src, dst, table, fault)]
          /\ op' = [name |-> "copyTableWithTx", table |-> table, tx |-> tx,
                    fault |-> fault]
    /\ pre' = [src |-> src, dst |-> dst]
    /\ pc' = "done"
    /\ UNCHANGED <<src, dst>>

\* fmt.Scanln into one string: the first word of the line, leading spaces
\* skipped; what follows the word makes Scanln return an error, which
\* runDelete does not look at.
RECURSIVE SkipSpaces(_)
SkipSpaces(s) == IF s # <<>> /\ Head(s) = " " THEN SkipSpaces(Tail(s)) ELSE s

RECURSIVE FirstWord(_)
FirstWord(s) ==
    IF s = <<>> \/ Head(s) = " " THEN <<>> ELSE <<Head(s)>> \o FirstWord(Tail(s))

Scanln(line) == FirstWord(SkipSpaces(line))

sYes == <<"y", "e", "s">>

\* The lines typed at the prompt.
AnswerLines ==
    {sYes, <<>>, <<"n", "o">>, <<"y">>, <<"Y", "e", "s">>,
     sYes \o <<" ", "n", "o">>, <<" ">> \o sYes}

\* One loop of runDelete over the names of a flag: count in a dry run,
\* else delete; each delete is a statement of its own.
RECURSIVE deleteNames(_, _, _, _, _, _)
deleteNames(db, names, i, kind, dry, fails) ==
    IF i > Len(names) THEN [db |-> db, err |-> FALSE, lines |-> <<>>]
    ELSE LET call == IF dry
                     THEN IF kind = "loadpoint"
                          THEN [db |-> db] @@ CountLoadpointSessions(db, names[i], fails)
                          ELSE [db |-> db] @@ CountVehicleSessions(db, names[i], fails)
                     ELSE IF kind = "loadpoint"
                          THEN DeleteLoadpointSessions(db, names[i], fails)
                          ELSE DeleteVehicleSessions(db, names[i], fails)
         IN  Only({IF r.err THEN [db |-> r.db, err |-> TRUE, lines |-> <<>>]
                   ELSE Only({[rest EXCEPT
                                 !.lines = <<[kind |-> kind, name |-> names[i],
                                              count |-> r.count]>> \o @] :
                                rest \in {deleteNames(r.db, names, i + 1, kind, dry,
                                                      fails)}}) :
                      r \in {call}})

\* runDelete: the flags --loadpoint and --vehicle (their names), --dry-run
\* and -y, the line typed at the prompt; the database is opened only after
\* the confirmation.
runDelete(db, flags, line, fault) ==
    LET ended(d, opened, err, lines) ==
            [db |-> d, opened |-> opened, err |-> err, lines |-> lines]
        vehicles(l) ==
            Only({ended(v.db, TRUE, v.err, l.lines \o v.lines) :
                     v \in {deleteNames(l.db, flags.vehicles, 1, "vehicle",
                                        flags.dryRun, fault = "delete")}})
    IN  IF flags.loadpoints = <<>> /\ flags.vehicles = <<>>
        THEN ended(db, FALSE, TRUE, <<>>)
        ELSE IF ~flags.dryRun /\ ~flags.assumeYes /\ Scanln(line) # sYes
        THEN ended(db, FALSE, FALSE, <<>>)
        ELSE IF fault = "open" THEN ended(db, FALSE, TRUE, <<>>)
        ELSE Only({IF l.err THEN ended(l.db, TRUE, TRUE, l.lines) ELSE vehicles(l) :
                      l \in {deleteNames(db, flags.loadpoints, 1, "loadpoint",
                                         flags.dryRun, fault = "delete")}})

DeleteFlags ==
    [loadpoints : {<<>>, <<nA>>, <<nA, nB>>}, vehicles : {<<>>, <<nA>>},
     dryRun : BOOLEAN, assumeYes : BOOLEAN]

DoRunDelete ==
    /\ pc = "idle"
    /\ \E flags \in DeleteFlags, line \in AnswerLines, fault \in {"none", "open", "delete"} :
       \E r \in {runDelete(dst, flags, line, fault)} :
          /\ dst' = r.db
          /\ res' = [err |-> r.err, opened |-> r.opened, lines |-> r.lines]
          /\ op' = [name |-> "runDelete", flags |-> flags, line |-> line,
                    fault |-> fault]
    /\ pre' = [src |-> src, dst |-> dst]
    /\ pc' = "done"
    /\ UNCHANGED src

\* A Client's connection: the nil db of a Client that was never opened,
\* the handle Open returns, and that handle after its Close.
Connections == {"nil", "open"}

\* The most Close calls made on one Client.
MaxCloses == 3

\* database/sql's Close on the handle: it closes the connections of an
\* open handle and returns nil on a handle already closed.
sqlClose(conn) == [conn |-> "closed", err |-> FALSE]

\* A Close without the nil test: the call on the nil handle panics.
Close_NilDereferenced(conn) ==
    IF conn = "nil" THEN [conn |-> conn, err |-> TRUE] ELSE sqlClose(conn)

\* Close: nil for a nil db, else what the handle's Close returns.
Close(conn) ==
    IF conn = "nil" THEN [conn |-> conn, err |-> FALSE] ELSE sqlClose(conn)

\* One more Close on a Client, the first on either kind of Client.
DoClose ==
    /\ \/ /\ pc = "idle"
          /\ \E conn \in Connections :
             \E r \in {Close(conn)} :
                /\ op' = [name |-> "Close", first |-> conn, conn |-> r.conn]
                /\ res' = [errs |-> <<r.err>>]
       \/ /\ pc = "closing"
          /\ Len(res.errs) < MaxCloses
          /\ \E r \in {Close(op.conn)} :
                /\ op' = [op EXCEPT !.conn = r.conn]
                /\ res' = [errs |-> Append(res.errs, r.err)]
    /\ pc' = "closing"
    /\ UNCHANGED <<src, dst, pre>>

NextClient ==
    \/ DoResolveTables
    \/ DoClose
    \/ DoCopyTableWithTx
    \/ DoRunDelete
    \/ DoCopyTablesTo
    \/ DoGetTableColumns
    \/ DoDeleteLoadpointSessions
    \/ DoDeleteVehicleSessions
    \/ DoCountLoadpointSessions
    \/ DoCountVehicleSessions
    \/ DoIntersectColumns
    \/ DoExportJSON
    \/ DoImportJSON

SpecClient == InitClient /\ [][NextClient]_vars

\* The table names of TableInputs that match ^[a-zA-Z_][a-zA-Z0-9_]*$.
WellFormed == {"settings", "sessions", "configs", "_x9"}

\* C14: a non-empty explicit list is returned as it is, whatever the mode,
\* if every name is well-formed, and fails with no table at all if one is
\* not; an empty list yields the tables of the mode, and fails for a mode
\* other than config, metrics, all.
C14_ResolveTables ==
    (pc = "done" /\ op.name = "ResolveTables") =>
        LET ts == op.opts.Tables
            m  == op.opts.Mode
            ok(tables) == res = [tables |-> tables, err |-> FALSE]
            failed == res.err /\ res.tables = <<>>
        IN  /\ (ts # <<>> /\ \A i \in DOMAIN ts : ts[i] \in WellFormed) => ok(ts)
            /\ (ts # <<>> /\ \E i \in DOMAIN ts : ts[i] \notin WellFormed) => failed
            /\ (ts = <<>> /\ m = 0) => ok(<<"settings", "configs", "caches">>)
            /\ (ts = <<>> /\ m = 1) => ok(<<"meters", "sessions", "grid_sessions">>)
            /\ (ts = <<>> /\ m = 2) =>
                  ok(<<"settings", "configs", "caches",
                       "meters", "sessions", "grid_sessions">>)
            /\ (ts = <<>> /\ m \notin {0, 1, 2}) => failed

\* An explicit list of two well-formed names, one of them no table of the
\* schema, was returned as it is although the mode is unknown.
C14_Witness ==
    /\ pc = "done" /\ op.name = "ResolveTables"
    /\ op.opts.Mode = 3
    /\ op.opts.Tables = <<"sessions", "_x9">>
    /\ res = [tables |-> <<"sessions", "_x9">>, err |-> FALSE]

\* C15: a table name of the caller's list that fails the identifier
\* grammar makes CopyTablesTo fail, and no statement was formatted from it.
C15_InvalidNameRejectedFirst ==
    (pc = "done" /\ op.name = "CopyTablesTo" /\ op.fault = NoFault) =>
        \A i \in DOMAIN op.tables :
            op.tables[i] \notin WellFormed =>
                /\ res.err
                /\ \A n \in DOMAIN res.statements :
                      res.statements[n].table # op.tables[i]

\* C16: GetTableColumns fails when the table is absent from the database
\* and returns the columns in declaration order when it is present.
C16_ColumnsOrNotFound ==
    (pc = "done" /\ op.name = "GetTableColumns" /\ ~op.fails) =>
        IF HasTable(pre.dst, op.table)
        THEN ~res.err /\ res.columns = pre.dst[op.table].cols
        ELSE res.err

\* The sessions rows a deletion by column and name must remove.
Doomed(column, name) ==
    {i \in DOMAIN pre.dst["sessions"].rows : pre.dst["sessions"].rows[i][column] = name}

SessionColumn == IF op.name = "DeleteLoadpointSessions" THEN "loadpoint" ELSE "vehicle"

CountBefore ==
    IF op.name = "DeleteLoadpointSessions"
    THEN CountLoadpointSessions(pre.dst, op.arg, FALSE)
    ELSE CountVehicleSessions(pre.dst, op.arg, FALSE)

CountAfter ==
    IF op.name = "DeleteLoadpointSessions"
    THEN CountLoadpointSessions(dst, op.arg, FALSE)
    ELSE CountVehicleSessions(dst, op.arg, FALSE)

\* C17: a deletion by loadpoint (by vehicle) removes exactly the sessions
\* rows whose column equals the name and keeps the others as they were, in
\* every table; it returns the count the matching Count call gave before,
\* the count afterwards is 0, and a name on no row returns 0 without error.
C17_DeleteSessions ==
    (pc = "done" /\ op.name \in {"DeleteLoadpointSessions", "DeleteVehicleSessions"}
                 /\ ~op.fails) =>
        LET before == pre.dst["sessions"].rows
            kept   == {i \in DOMAIN before : i \notin Doomed(SessionColumn, op.arg)}
        IN  /\ ~res.err
            /\ dst["sessions"].rows = Pick(before, kept)
            /\ \A t \in DOMAIN dst : t # "sessions" => dst[t] = pre.dst[t]
            /\ DOMAIN dst = DOMAIN pre.dst
            /\ dst["sessions"].cols = pre.dst["sessions"].cols
            /\ ~CountBefore.err /\ res.count = CountBefore.count
            /\ ~CountAfter.err /\ CountAfter.count = 0
            /\ (Doomed(SessionColumn, op.arg) = {} => res.count = 0 /\ dst = pre.dst)

\* Two of three sessions were deleted by loadpoint, the third kept.
C17_Witness ==
    /\ pc = "done" /\ op.name = "DeleteLoadpointSessions" /\ ~op.fails
    /\ Len(pre.dst["sessions"].rows) = 3
    /\ res = [count |-> 2, err |-> FALSE]
    /\ Len(dst["sessions"].rows) = 1

-----------------------------------------------------------------------------
(* The configs blobs.                                                      *)

\* The class of the configs rows the call reads.
ConfigClass == IF op.name \in {"RenameLoadpoint", "RenameLoadpointDryRun"} THEN 5 ELSE 3

ConfigsBefore == pre.dst["configs"].rows
ConfigsAfter  == dst["configs"].rows

\* The member names of a JSON object and the value the text gives for one
\* (of two members with one name, the later).
Keys(value) == {value.fields[i].k : i \in DOMAIN value.fields}

Member(value, k) ==
    value.fields[MaxOf({i \in DOMAIN value.fields : value.fields[i].k = k})].v

\* The blob is the text of a JSON object.
Decodes(value) == value.kind = "json"

\* The blob is a JSON object with a string title.
Titled(value) ==
    Decodes(value) /\ "title" \in Keys(value) /\ Member(value, "title").t = "str"

TitleIn(value) == Member(value, "title").s

\* The text of the blob as the configs row holds it.
TextIn(value) == RawText(value)

\* The rows of the class the rename writes: a JSON object titled oldName,
\* or text that is no JSON object and has 'title: <oldName>' in it.
Rewritten ==
    {i \in DOMAIN ConfigsBefore :
        /\ ConfigsBefore[i].class = ConfigClass
        /\ \/ Titled(ConfigsBefore[i].value) /\ TitleIn(ConfigsBefore[i].value) = op.oldName
           \/ /\ ~Decodes(ConfigsBefore[i].value)
              /\ Contains(TextIn(ConfigsBefore[i].value), sTitleColon \o op.oldName)}

\* C18: a successful rename turns the title of a JSON object titled
\* oldName (in a row of its class) into newName and keeps every other
\* member with the value it had; a JSON object with another title is left
\* as it was; Configs is the number of rows rewritten.
C18_JSONRenameKeepsFields ==
    (Renamed /\ ~res.err) =>
        /\ DOMAIN ConfigsAfter = DOMAIN ConfigsBefore
        /\ \A i \in DOMAIN ConfigsBefore :
              LET old == ConfigsBefore[i].value
                  new == ConfigsAfter[i].value
              IN  (ConfigsBefore[i].class = ConfigClass /\ Titled(old)) =>
                      IF TitleIn(old) = op.oldName
                      THEN /\ Decodes(new)
                           /\ Keys(new) = Keys(old)
                           /\ Member(new, "title") = JStr(op.newName)
                           /\ \A k \in Keys(old) \ {"title"} :
                                 Member(new, k) = Member(old, k)
                      ELSE ConfigsAfter[i] = ConfigsBefore[i]
        /\ res.result.Configs = Cardinality(Rewritten)

\* The first position of sub in s.
FirstAt(s, sub) ==
    CHOOSE i \in 1..Len(s) :
        /\ SubSeq(s, i, i + Len(sub) - 1) = sub
        /\ \A j \in 1..(i - 1) : SubSeq(s, j, j + Len(sub) - 1) # sub

\* C19: in a row of the rename's class whose value is no JSON object, a
\* successful rename replaces the first 'title: <oldName>' by
\* 'title: <newName>' and keeps the text before and after it; the row
\* counts once; without that text the row stays as it was and does not
\* count.
C19_TextFallbackFirstOnly ==
    (Renamed /\ ~res.err) =>
        /\ \A i \in DOMAIN ConfigsBefore :
              LET old    == TextIn(ConfigsBefore[i].value)
                  oldPat == sTitleColon \o op.oldName
                  newPat == sTitleColon \o op.newName
              IN  (ConfigsBefore[i].class = ConfigClass
                     /\ ~Decodes(ConfigsBefore[i].value)) =>
                      IF Contains(old, oldPat)
                      THEN LET at == FirstAt(old, oldPat)
                           IN  /\ TextIn(ConfigsAfter[i].value) =
                                     SubSeq(old, 1, at - 1) \o newPat
                                     \o SubSeq(old, at + Len(oldPat), Len(old))
                               /\ ConfigsAfter[i].id = ConfigsBefore[i].id
                               /\ ConfigsAfter[i].class = ConfigsBefore[i].class
                               /\ i \in Rewritten
                      ELSE ConfigsAfter[i] = ConfigsBefore[i] /\ i \notin Rewritten
        /\ res.result.Configs = Cardinality(Rewritten)

\* A text with 'title: a' twice was renamed to b: only the first changed.
C19_Witness ==
    /\ Renamed /\ ~res.err /\ op.oldName = nA /\ op.newName = nB
    /\ res.result.Configs = 1
    /\ \E i \in DOMAIN ConfigsBefore :
          /\ ConfigsBefore[i].value =
                TextBlob(sTitleColon \o nA \o <<"\n">> \o sTitleColon \o nA)
          /\ ConfigsAfter[i].value =
                TextBlob(sTitleColon \o nB \o <<"\n">> \o sTitleColon \o nA)

RenameOrCount ==
    /\ pc = "done"
    /\ op.name \in RenameCalls \union {"RenameLoadpointDryRun", "RenameVehicleDryRun"}

\* The blob is a JSON object whose title is absent or no string.
Untitled(value) == Decodes(value) /\ ~Titled(value)

UntitledRows ==
    {i \in DOMAIN ConfigsBefore :
        ConfigsBefore[i].class = ConfigClass /\ Untitled(ConfigsBefore[i].value)}

\* C20: a JSON object whose title is absent or no string is skipped by
\* the mutating rename and by the dry-run count: the call does not fail,
\* the row stays as it was, and the row is not counted, by title or by the
\* text 'title: <oldName>' inside it.
C20_UntitledSkipped ==
    (RenameOrCount /\ op.fail = "none") =>
        /\ ~res.err
        /\ DOMAIN ConfigsAfter = DOMAIN ConfigsBefore
        /\ \A i \in UntitledRows : ConfigsAfter[i] = ConfigsBefore[i]
        /\ res.result.Configs =
              Cardinality({i \in DOMAIN ConfigsBefore \ UntitledRows :
                              /\ ConfigsBefore[i].class = ConfigClass
                              /\ IF Decodes(ConfigsBefore[i].value)
                                 THEN TitleIn(ConfigsBefore[i].value) = op.oldName
                                 ELSE Contains(TextIn(ConfigsBefore[i].value),
                                               sTitleColon \o op.oldName)})

\* RenameLoadpoint a -> b on the class-5 rows {"title":"a",...} and
\* {"title":7,"charger":"title: a"}: one row counted, the other as it was.
C20_Witness ==
    /\ Renamed /\ op.name = "RenameLoadpoint" /\ op.fail = "none"
    /\ op.oldName = nA /\ op.newName = nB
    /\ \E i \in UntitledRows :
          /\ Member(ConfigsBefore[i].value, "title") = JNum(<<"7">>)
          /\ Contains(TextIn(ConfigsBefore[i].value), sTitleColon \o nA)
          /\ ConfigsAfter[i] = ConfigsBefore[i]
    /\ res = [result |-> [Sessions |-> 0, Settings |-> 0, Configs |-> 1], err |-> FALSE]

-----------------------------------------------------------------------------
(* Transfer: tables the destination lacks, progress, directives.           *)

\* The tables a Transfer resolved, and those of them the destination has.
Resolved == ResolveTables(op.opts).tables

Present == SelectSeq(Resolved, LAMBDA t : HasTable(pre.dst, t))

Missing == SelectSeq(Resolved, LAMBDA t : ~HasTable(pre.dst, t))

\* The tables reported as missing, in the order reported.
Warned == [n \in DOMAIN Lines(res.out, "missing") |-> Lines(res.out, "missing")[n].table]

\* A real Transfer no database call of which was made to fail, with a
\* resolved table the destination lacks, and with nothing in the way of
\* the other copies: the source has each table and shares a column.
SkippedSome ==
    /\ RealRan /\ op.fault = NoFault /\ ~ResolveTables(op.opts).err
    /\ Missing # <<>>
    /\ \A n \in DOMAIN Present :
          HasTable(pre.src, Present[n]) /\ CommonNames(Present[n]) # {}

\* The destination a real Transfer of the tables the destination has
\* leaves, and what it returns.
WithoutMissing == transferReal(pre.src, pre.dst, op.opts, Present, NoFault)

NamesOf(cols) == [i \in DOMAIN cols |-> cols[i].Name]

\* The positions of the source columns whose name the destination has.
SharedAt == {i \in DOMAIN op.src : \E j \in DOMAIN op.dst : op.dst[j].Name = op.src[i].Name}

\* C22: intersectColumns returns the source columns (as the source has
\* them) whose name is a name of the destination, in source order, whatever
\* the types; {id,name} with {id,name,extra}, {id,name,extra} with
\* {id,name} and {id,name} with {id,name} give {id,name}.
C22_IntersectColumns ==
    (pc = "done" /\ op.name = "intersectColumns") =>
        /\ Len(res.cols) = Cardinality(SharedAt)
        /\ \A n \in DOMAIN res.cols :
              \E i \in SharedAt :
                 /\ res.cols[n] = op.src[i]
                 /\ Cardinality({k \in SharedAt : k < i}) = n - 1
        /\ (NamesOf(op.src) = <<"id", "name">>
              /\ NamesOf(op.dst) \in {<<"id", "name", "extra">>, <<"id", "name">>})
           => NamesOf(res.cols) = <<"id", "name">>
        /\ (NamesOf(op.src) = <<"id", "name", "extra">> /\ NamesOf(op.dst) = <<"id", "name">>)
           => NamesOf(res.cols) = <<"id", "name">>

\* {extra, id INTEGER, name} with {name, id TEXT}: id as the source has
\* it, then name.
C22_Witness ==
    /\ pc = "done" /\ op.name = "intersectColumns"
    /\ NamesOf(op.src) = <<"extra", "id", "name">>
    /\ NamesOf(op.dst) = <<"name", "id">>
    /\ op.src[2].Type = "INTEGER" /\ op.dst[2].Type = "TEXT"
    /\ res.cols = <<op.src[2], op.src[3]>>

\* The sessions of a database by loadpoint.
SessionsAt(db, names) ==
    Cardinality({i \in DOMAIN db["sessions"].rows :
                    db["sessions"].rows[i].loadpoint \in names})

\* A successful real Transfer of the sessions table into a destination
\* without sessions, with one loadpoint directive old -> new.
SessionsRenamed ==
    /\ RealRan /\ res.err = ""
    /\ Len(op.opts.LoadpointRenames) = 1
    /\ \E n \in DOMAIN res.copied : res.copied[n].table = "sessions"
    /\ pre.dst["sessions"].rows = <<>>

\* C23: after it the destination has no session at loadpoint old, as many
\* sessions at new as the source has at old or new, and the source is as
\* it was.
C23_TransferThenRename ==
    SessionsRenamed =>
        LET old == op.opts.LoadpointRenames[1].OldName
            new == op.opts.LoadpointRenames[1].NewName
        IN  /\ SessionsAt(dst, {old}) = 0
            /\ SessionsAt(dst, {new}) = SessionsAt(pre.src, {old, new})
            /\ src = pre.src

\* Two source sessions at a and one at b, renamed a -> b on the way:
\* three sessions at b in the destination.
C23_Witness ==
    /\ SessionsRenamed
    /\ op.opts.LoadpointRenames = <<Mapping(nA, nB)>>
    /\ SessionsAt(pre.src, {nA}) = 2 /\ SessionsAt(pre.src, {nB}) = 1
    /\ SessionsAt(dst, {nB}) = 3

-----------------------------------------------------------------------------
(* Export files.                                                           *)

Imported == pc = "done" /\ op.name = "ImportJSON"

\* The tables of the file that was read.
Exported == DOMAIN op.export.Tables

\* An import, with no call made to fail, of what ExportJSON wrote for the
\* source with the same options, into a database that has the exported
\* tables as the source declares them, each without rows.
RoundTrip ==
    /\ Imported /\ op.fault = NoFault
    /\ ~ResolveTables(op.opts).err
    /\ op.export = Only({ExportJSON(pre.src, op.opts, NoFault)}).file
    /\ \A t \in Exported :
          /\ HasTable(pre.dst, t)
          /\ pre.dst[t].cols = pre.src[t].cols
          /\ pre.dst[t].rows = <<>>

\* C24: after the round trip every exported table has as many rows as in
\* the source, and the import returned no error.
C24_RoundTripKeepsCounts ==
    RoundTrip =>
        /\ ~res.err
        /\ \A t \in Exported : Len(dst[t].rows) = Len(pre.src[t].rows)

\* C25: ImportJSON is all-or-nothing.  When the import returns an error
\* (the file's version is not "1", the mode is unknown, a column read or
\* the insert of any row of any table fails, or the commit fails) the
\* target database is exactly as it was before the call; the target has
\* changed only when the import returned nil, that is after every selected
\* table was imported.
ModeKnown ==
    \/ Len(op.opts.Tables) > 0
    \/ op.opts.Mode \in {TransferConfig, TransferMetrics, TransferAll}

Closing == pc = "closing"

VehicleRenamed == pc = "done" /\ op.name = "RenameVehicle" /\ ~res.err

OldPrefix == sVehicleDot \o op.oldName \o sDot

NewPrefix == sVehicleDot \o op.newName \o sDot

SettingsKeys(db) == {db["settings"].rows[i].key : i \in DOMAIN db["settings"].rows}

C27_LiteralPrefixOnly ==
    VehicleRenamed =>
        /\ \A k \in SettingsKeys(pre.dst) :
              ~HasPrefix(k, OldPrefix) => k \in SettingsKeys(dst)
        /\ \A i \in DOMAIN pre.dst["settings"].rows :
              LET r == pre.dst["settings"].rows[i]
              IN  HasPrefix(r.key, OldPrefix) /\ op.oldName # op.newName =>
                     \E j \in DOMAIN dst["settings"].rows :
                        /\ dst["settings"].rows[j].key =
                              NewPrefix \o TrimPrefix(r.key, OldPrefix)
                        /\ dst["settings"].rows[j].value = r.value

\* C28: RenameLoadpoint(oldName, newName) changes the value of exactly the
\* settings rows whose key matches the loadpoint title pattern lp<n>.title
\* and whose value equals oldName, and sets it to newName; rows with another
\* key (lp1.mode) or another value keep their value, no key is added or
\* removed, and Settings is the number of rows changed.
LoadpointRenamed == pc = "done" /\ op.name = "RenameLoadpoint" /\ ~res.err

\* The key reads lp, anything, .title (letters compared without case).
TitleKey(k) ==
    /\ Len(k) >= 8
    /\ FoldCase(k[1]) = "l" /\ FoldCase(k[2]) = "p"
    /\ [i \in 1..6 |-> FoldCase(k[Len(k) - 6 + i])] = <<".", "t", "i", "t", "l", "e">>

TitleRows(db) ==
    {i \in DOMAIN db["settings"].rows :
        TitleKey(db["settings"].rows[i].key) /\ db["settings"].rows[i].value = op.oldName}

LoadpointCall == pc = "done" /\ op.name = "RenameLoadpoint"

VehicleCall == pc = "done" /\ op.name = "RenameVehicle"

ColumnOf(db, table, column) ==
    [i \in DOMAIN db[table].rows |-> db[table].rows[i][column]]

VehicleSettings(db) ==
    SelectSeq(db["settings"].rows, LAMBDA r : HasPrefix(r.key, sVehicleDot))

TitleSettings(db) ==
    SelectSeq(db["settings"].rows, LAMBDA r : TitleKey(r.key))

ConfigsNotOf(db, class) ==
    SelectSeq(db["configs"].rows, LAMBDA r : r.class # class)

OtherTables == {"meters", "grid_sessions", "caches"}

C29_OwnKindOnly ==
    /\ LoadpointCall =>
          /\ ColumnOf(dst, "sessions", "vehicle") = ColumnOf(pre.dst, "sessions", "vehicle")
          /\ VehicleSettings(dst) = VehicleSettings(pre.dst)
          /\ ConfigsNotOf(dst, 5) = ConfigsNotOf(pre.dst, 5)
    /\ VehicleCall =>
          /\ ColumnOf(dst, "sessions", "loadpoint") = ColumnOf(pre.dst, "sessions", "loadpoint")
          /\ TitleSettings(dst) = TitleSettings(pre.dst)
          /\ ConfigsNotOf(dst, 3) = ConfigsNotOf(pre.dst, 3)
    /\ LoadpointCall \/ VehicleCall =>
          \A t \in OtherTables : dst[t] = pre.dst[t]

\* A loadpoint rename rewrote a configs row of class 5 in a database
\* whose class-3 row carries the same title.
C29_Witness ==
    /\ LoadpointCall /\ ~res.err
    /\ res.result.Configs > 0
    /\ op.oldName # op.newName
    /\ \E i \in DOMAIN pre.dst["configs"].rows :
          /\ pre.dst["configs"].rows[i].class = 3
          /\ Titled(pre.dst["configs"].rows[i].value)
          /\ TitleIn(pre.dst["configs"].rows[i].value) = op.oldName

\* C30: in a real Transfer the progress callback is invoked exactly once
\* for each resolved table that exists in the destination, in
\* resolved-table order, after that table's copy returned and with the
\* number of rows copied; never for a table skipped as missing, never for
\* a table whose copy failed, never after the failing table, and never in
\* a dry run.
FaultAt(i, calls) == op.fault.i = i /\ op.fault.at \in calls

\* The copy of the i-th resolved table returns an error.
CopyFails(i) ==
    LET t == Resolved[i]
    IN  \/ ~HasTable(pre.src, t)
        \/ CommonNames(t) = {}
        \/ FaultAt(i, {"srccols", "dstcols", "count"})
        \/ Len(pre.src[t].rows) > 0 /\ FaultAt(i, {"query"})
        \/ op.fault.k <= Len(pre.src[t].rows) /\ FaultAt(i, {"scan", "insert"})

\* The table loop ends with an error at the i-th resolved table.
StopsAt(i) ==
    \/ FaultAt(i, {"exists"})
    \/ HasTable(pre.dst, Resolved[i]) /\ CopyFails(i)

\* The positions whose table is to be reported, in order.
Reported ==
    SelectSeq([i \in DOMAIN Resolved |-> i],
              LAMBDA i : /\ HasTable(pre.dst, Resolved[i])
                         /\ \A j \in 1..i : ~StopsAt(j))

WithCallback == Transferred /\ op.opts.OnProgress

C30_ProgressPerCopiedTable ==
    WithCallback =>
        IF op.opts.DryRun \/ ResolveTables(op.opts).err \/ op.fault.at = "begin"
        THEN res.progress = <<>>
        ELSE /\ res.progress =
                   [n \in DOMAIN Reported |->
                       [table |-> Resolved[Reported[n]],
                        count |-> Len(pre.src[Resolved[Reported[n]]].rows)]]
             /\ res.err \in {"exists", "copy"} <=> \E i \in DOMAIN Resolved : StopsAt(i)

\* The copy of the second table failed after the first was reported, and
\* a later table of the destination was not reported.
C30_Witness ==
    /\ WithCallback /\ ~op.opts.DryRun
    /\ res.err = "copy"
    /\ Len(res.progress) = 1
    /\ res.progress[1].count > 0
    /\ Len(Present) > 2

-----------------------------------------------------------------------------
(* Directives, copies and the command line.                                *)

\* C31: Transfer applies the rename directives in list order within each
\* kind, all loadpoint directives before any vehicle directive, each on the
\* database the previous one left: with the directives A -> B, B -> C of
\* one kind, every destination row that held A or B holds C afterwards.
Chain(list) == Len(list) = 2 /\ list[1].NewName = list[2].OldName

\* A successful real Transfer with such a chain.
Chained ==
    /\ RealRan /\ res.err = ""
    /\ Chain(op.opts.LoadpointRenames) \/ Chain(op.opts.VehicleRenames)

\* The destination as the committed copies left it.
AsCopied == Only({Transfer(pre.src, pre.dst, WithoutDirectives(op.opts), NoFault)}).dst

\* The configs value is titled with one of names.
TitledAmong(value, names) ==
    IF value.kind = "json" THEN Titled(value) /\ TitleIn(value) \in names
    ELSE \E n \in names : Contains(value.text, sTitleColon \o n)

\* Every row of db0 that holds one of the first two names of the chain in
\* the column of sessions, in a title value of settings (loadpoint) or in
\* the title of a configs row of the class holds the third name in db1.
ChainHolds(db0, db1, list, column, class) ==
    LET from == {list[1].OldName, list[2].OldName}
        to   == list[2].NewName
    IN  /\ \A i \in DOMAIN db0["sessions"].rows :
              db0["sessions"].rows[i][column] \in from =>
                  \E j \in DOMAIN db1["sessions"].rows :
                     /\ db1["sessions"].rows[j].id = db0["sessions"].rows[i].id
                     /\ db1["sessions"].rows[j][column] = to
        /\ \A i \in DOMAIN db0["configs"].rows :
              /\ db0["configs"].rows[i].class = class
              /\ TitledAmong(db0["configs"].rows[i].value, from)
              => \E j \in DOMAIN db1["configs"].rows :
                     /\ db1["configs"].rows[j].id = db0["configs"].rows[i].id
                     /\ TitledAmong(db1["configs"].rows[j].value, {to})
        /\ \A i \in DOMAIN db0["settings"].rows :
              LET r == db0["settings"].rows[i]
              IN  IF column = "loadpoint"
                  THEN TitleKey(r.key) /\ r.value \in from =>
                          \E j \in DOMAIN db1["settings"].rows :
                             /\ db1["settings"].rows[j].key = r.key
                             /\ db1["settings"].rows[j].value = to
                  ELSE \A n \in from :
                          HasPrefix(r.key, sVehicleDot \o n \o sDot) =>
                             /\ r.key \notin SettingsKeys(db1)
                             /\ (sVehicleDot \o to \o sDot)
                                   \o TrimPrefix(r.key, sVehicleDot \o n \o sDot)
                                \in SettingsKeys(db1)

C31_DirectivesInOrder ==
    /\ (RealRan /\ res.err = "") =>
          /\ Len(res.renames) = Len(Directives(op.opts))
          /\ \A j \in DOMAIN res.renames :
                /\ res.renames[j].kind = Directives(op.opts)[j].kind
                /\ res.renames[j].OldName = Directives(op.opts)[j].OldName
                /\ res.renames[j].NewName = Directives(op.opts)[j].NewName
    /\ Chained =>
          /\ Chain(op.opts.LoadpointRenames) =>
                ChainHolds(AsCopied, dst, op.opts.LoadpointRenames, "loadpoint", 5)
          /\ Chain(op.opts.VehicleRenames) =>
                ChainHolds(AsCopied, dst, op.opts.VehicleRenames, "vehicle", 3)

\* After the copies the destination had sessions at a and at b; with the
\* loadpoint directives a -> b, b -> c all of them are at c.
C31_Witness ==
    /\ Chained
    /\ op.opts.LoadpointRenames = <<Mapping(nA, nB), Mapping(nB, nC)>>
    /\ SessionsAt(AsCopied, {nA}) > 0 /\ SessionsAt(AsCopied, {nB}) > 0
    /\ SessionsAt(dst, {nC}) = SessionsAt(AsCopied, {nA, nB})
    /\ \E n \in DOMAIN res.copied : res.copied[n].count > 0

\* C32: every rename directive that reaches the rename engine has an old
\* and a new name that are not empty after trimming; a Transfer whose
\* LoadpointRenames or VehicleRenames hold a directive with an empty or
\* whitespace-only name returns an error and applies no rename.
Blank(name) == \A i \in DOMAIN name : name[i] = " "

BlankDirective(d) == Blank(d.OldName) \/ Blank(d.NewName)

C32_BlankDirectiveRejected ==
    RealRan =>
        /\ \A j \in DOMAIN res.renames : ~BlankDirective(res.renames[j])
        /\ (\E j \in DOMAIN Directives(op.opts) : BlankDirective(Directives(op.opts)[j]))
           => res.err # "" /\ res.renames = <<>>

\* C33: the copy of one table whose source and destination column lists
\* share no name fails before any source row is read and before any
\* destination row is written, and returns 0 rows copied; the error ends
\* that table's copy only: the rows earlier copies wrote in the caller's
\* transaction are still in it.
TableCopy == pc = "done" /\ op.name = "copyTableWithTx"

ColumnNamesOf(db, table) ==
    IF HasTable(db, table) THEN {db[table].cols[i].Name : i \in DOMAIN db[table].cols}
    ELSE {}

NoSharedName ==
    ColumnNamesOf(pre.src, op.table) \cap ColumnNamesOf(pre.dst, op.table) = {}

C33_NoCommonColumnsFails ==
    (TableCopy /\ NoSharedName /\ op.fault = NoFault) =>
        /\ res.err
        /\ res.copied = 0
        /\ \A n \in DOMAIN res.statements : res.statements[n].sql = "PRAGMA table_info"
        /\ res.tx = op.tx

\* The settings tables share no column name, and the caller's transaction
\* holds the sessions an earlier copy wrote.
C33_Witness ==
    /\ TableCopy /\ NoSharedName /\ op.fault = NoFault
    /\ HasTable(pre.src, op.table) /\ HasTable(pre.dst, op.table)
    /\ pre.src[op.table].rows # <<>>
    /\ op.tx # pre.dst
    /\ res.tx = op.tx
    /\ res.err

\* C34: the table copy is idempotent.  Running the same real Transfer
\* (source unchanged, no renames) a second time leaves every table of the
\* destination as the first run left it.
Again == Only({Transfer(src, dst, op.opts, NoFault)})

C34_CopyIdempotent ==
    Copied =>
        /\ Again.err = ""
        /\ \A t \in DOMAIN dst : Again.dst[t] = dst[t]

\* The destination table has a primary key or unique index, every column
\* of it is copied, and no source row holds NULL in one of them.
KeyCopied(t) ==
    /\ PrimaryCols(pre.dst[t].cols) # {}
    /\ PrimaryCols(pre.dst[t].cols) \subseteq CommonNames(t)
    /\ \A i \in DOMAIN pre.src[t].rows :
          \A c \in PrimaryCols(pre.dst[t].cols) :
              ColType(pre.dst[t].cols, c) = "TEXT" => pre.src[t].rows[i][c] # NULL

\* C34 (amended): the second run leaves as the first left it every copied
\* table whose rows carry a key of the destination table.
C34_CopyIdempotent_WithKeys ==
    Copied =>
        /\ Again.err = ""
        /\ \A n \in DOMAIN res.copied :
              KeyCopied(res.copied[n].table) =>
                  Again.dst[res.copied[n].table] = dst[res.copied[n].table]
        /\ \A t \in DOMAIN dst :
              (\A n \in DOMAIN res.copied : res.copied[n].table # t) =>
                  Again.dst[t] = dst[t]

\* Rows were copied over rows of the destination with the same keys, and
\* copied again.
C34_Witness ==
    /\ Copied
    /\ \E n \in DOMAIN res.copied :
          /\ res.copied[n].count > 0
          /\ KeyCopied(res.copied[n].table)
          /\ pre.dst[res.copied[n].table].rows # <<>>
          /\ dst[res.copied[n].table] # pre.dst[res.copied[n].table]
    /\ Again.dst = dst

\* C35: Transfer never writes to the source database, in a dry run or a
\* real run, whether it returns nil or an error: the source holds
\* afterwards what it held before.
C35_SourceUntouched == Transferred => src = pre.src

\* A real Transfer that copied rows and renamed sessions in the
\* destination, and one that failed, left the source as it was.
C35_Witness ==
    /\ RealRan /\ res.err = ""
    /\ \E n \in DOMAIN res.copied : res.copied[n].count > 0
    /\ \E j \in DOMAIN res.renames : res.renames[j].result.Sessions > 0
    /\ dst # pre.dst
    /\ src = pre.src
    /\ \E i \in DOMAIN src["sessions"].rows :
          src["sessions"].rows[i].loadpoint = res.renames[1].OldName

\* C36: a successful table copy never removes a destination row whose
\* primary key does not occur in the source table: the row is still there,
\* with every column as it was, after the Transfer has committed.
KeyInSource(t, r) ==
    /\ PrimaryCols(pre.dst[t].cols) # {}
    /\ \E i \in DOMAIN pre.src[t].rows :
          \A c \in PrimaryCols(pre.dst[t].cols) :
              c \in DOMAIN pre.src[t].rows[i] /\ pre.src[t].rows[i][c] = r[c]

C36_OtherRowsKept ==
    Copied =>
        \A n \in DOMAIN res.copied :
            LET t == res.copied[n].table
            IN  \A i \in DOMAIN pre.dst[t].rows :
                    ~KeyInSource(t, pre.dst[t].rows[i]) =>
                        \E j \in DOMAIN dst[t].rows : dst[t].rows[j] = pre.dst[t].rows[i]

\* The copy replaced the destination row that has the key of a source row
\* and kept the one that has not.
C36_Witness ==
    /\ Copied
    /\ \E n \in DOMAIN res.copied :
          LET t == res.copied[n].table
          IN  /\ res.copied[n].count > 0
              /\ \E i \in DOMAIN pre.dst[t].rows :
                    /\ KeyInSource(t, pre.dst[t].rows[i])
                    /\ \A j \in DOMAIN dst[t].rows : dst[t].rows[j] # pre.dst[t].rows[i]
              /\ \E i \in DOMAIN pre.dst[t].rows :
                    /\ ~KeyInSource(t, pre.dst[t].rows[i])
                    /\ \E j \in DOMAIN dst[t].rows : dst[t].rows[j] = pre.dst[t].rows[i]

\* C37 (as claimed): when the source table has zero rows the copy returns
\* 0 rows copied and no error, issues no query for rows and no destination
\* write, and leaves the rows of the destination table as they were.
EmptySource ==
    /\ TableCopy /\ op.fault = NoFault
    /\ HasTable(pre.src, op.table)
    /\ pre.src[op.table].rows = <<>>

NothingCopied ==
    /\ ~res.err
    /\ res.copied = 0
    /\ \A n \in DOMAIN res.statements :
          res.statements[n].sql \in {"PRAGMA table_info", "SELECT COUNT(*) FROM"}
    /\ res.tx = op.tx

C37_EmptySourceCopiesNothing == EmptySource => NothingCopied

\* C37 (amended): so it is when the column lists of the table share a name.
C37_EmptySourceCopiesNothing_SharedColumn ==
    (EmptySource /\ ~NoSharedName) => NothingCopied

\* The source table is empty and the destination table holds rows.
C37_Witness ==
    /\ EmptySource /\ ~NoSharedName
    /\ op.tx[op.table].rows # <<>>
    /\ res.tx[op.table].rows = op.tx[op.table].rows
    /\ res.copied = 0

\* C38: the delete command never deletes a session without consent.  With
\* --dry-run it only counts and no row is removed; without --dry-run and
\* without -y, unless the line typed at the prompt is exactly yes the
\* command ends before the database is opened and no row is removed.
DeleteRan == pc = "done" /\ op.name = "runDelete"

C38_NoDeleteWithoutConsent ==
    DeleteRan =>
        /\ op.flags.dryRun => dst = pre.dst
        /\ (~op.flags.dryRun /\ ~op.flags.assumeYes /\ op.line # sYes) =>
              ~res.opened /\ dst = pre.dst

\* C39: CopyTablesTo is all-or-nothing over its table list: the tables are
\* copied in one destination transaction; when the copy of any table fails
\* nothing is committed and the destination is unchanged, and a table of
\* the list that the destination does not have is not skipped: it makes
\* the call fail.
TablesCopied == pc = "done" /\ op.name = "CopyTablesTo"

MissingInDestination(i) == ~HasTable(pre.dst, op.tables[i])

C39_CopyTablesToAllOrNothing ==
    TablesCopied =>
        /\ res.err => dst = pre.dst
        /\ (\E i \in DOMAIN op.tables : MissingInDestination(i)) => res.err

\* The first table of the list has source rows the destination lacks, the
\* second is missing in the destination: the call fails and the destination
\* holds none of the first table's rows.
C39_Witness ==
    /\ TablesCopied /\ op.fault = NoFault /\ Len(op.tables) = 2
    /\ HasTable(pre.src, op.tables[1]) /\ HasTable(pre.dst, op.tables[1])
    /\ pre.src[op.tables[1]].cols = pre.dst[op.tables[1]].cols
    /\ pre.src[op.tables[1]].rows # <<>> /\ pre.dst[op.tables[1]].rows = <<>>
    /\ HasTable(pre.src, op.tables[2]) /\ MissingInDestination(2)
    /\ res.err /\ dst = pre.dst

=============================================================================
